---- MODULE Spec2Model ----
(***************************************************************************)
(* Personal Accountant: the deterministic decision layer.                  *)
(*                                                                         *)
(*   - QueryAgent._resolve_time_reference / QueryAgent.intent_to_query     *)
(*   - QueryExecutor.execute over a BillStorageInterface                   *)
(*   - QueryFlow.answer_question                                           *)
(*   - BillValidator.validate (schema, semantic, duplicate check)          *)
(*                                                                         *)
(* Text is a sequence of one-character strings, so that lower(), strip()   *)
(* and the substring test `in` are computed, not assumed.  A date is a     *)
(* triple <<year, month, day>>.  Money is an integer number of paise       *)
(* (Decimal with two places).  Python's None is NoneStr for text, NoDate   *)
(* for dates and NoAmount for money.                                       *)
(***************************************************************************)
EXTENDS Integers, Sequences, FiniteSets, TLC

-----------------------------------------------------------------------------
(* Text *)

NoneStr == <<"None">>

UpperAlphabet ==
    <<"A","B","C","D","E","F","G","H","I","J","K","L","M",
      "N","O","P","Q","R","S","T","U","V","W","X","Y","Z">>

LowerAlphabet ==
    <<"a","b","c","d","e","f","g","h","i","j","k","l","m",
      "n","o","p","q","r","s","t","u","v","w","x","y","z">>

Digits == <<"0","1","2","3","4","5","6","7","8","9">>

Whitespace == {" "}

IndexIn(alphabet, c) ==
    IF \E i \in 1..Len(alphabet) : alphabet[i] = c
    THEN CHOOSE i \in 1..Len(alphabet) : alphabet[i] = c
    ELSE 0

LowerChar(c) ==
    IF IndexIn(UpperAlphabet, c) > 0 THEN LowerAlphabet[IndexIn(UpperAlphabet, c)] ELSE c

\* str.lower()
Lower(s) == [i \in 1..Len(s) |-> LowerChar(s[i])]

\* str.isalpha() of one character
IsAlpha(c) == IndexIn(UpperAlphabet, c) > 0 \/ IndexIn(LowerAlphabet, c) > 0

IsDigit(c) == IndexIn(Digits, c) > 0

DigitVal(c) == IndexIn(Digits, c) - 1

\* `sub in s`
Contains(s, sub) ==
    \E i \in 0..(Len(s) - Len(sub)) : SubSeq(s, i + 1, i + Len(sub)) = sub

RECURSIVE LStrip(_)
LStrip(s) == IF Len(s) > 0 /\ Head(s) \in Whitespace THEN LStrip(Tail(s)) ELSE s

RECURSIVE RStrip(_)
RStrip(s) ==
    IF Len(s) > 0 /\ s[Len(s)] \in Whitespace THEN RStrip(SubSeq(s, 1, Len(s) - 1)) ELSE s

\* str.strip()
Strip(s) == RStrip(LStrip(s))

\* truth value of an Optional[str]: None and "" are false
Truthy(s) == s # NoneStr /\ Len(s) > 0

-----------------------------------------------------------------------------
(* Dates *)

NoDate == <<0, 0, 0>>

IsLeap(y) == (y % 4 = 0 /\ y % 100 # 0) \/ y % 400 = 0

DaysInMonth(y, m) ==
    IF m = 2 THEN (IF IsLeap(y) THEN 29 ELSE 28)
    ELSE IF m \in {4, 6, 9, 11} THEN 30 ELSE 31

MkDate(y, m, d) == <<y, m, d>>

Year(dt) == dt[1]
Month(dt) == dt[2]
Day(dt) == dt[3]

IsDate(dt) ==
    /\ Year(dt) >= 1
    /\ Month(dt) \in 1..12
    /\ Day(dt) \in 1..DaysInMonth(Year(dt), Month(dt))

\* d1 < d2 and d1 <= d2 on dates
DateLT(d1, d2) ==
    \/ Year(d1) < Year(d2)
    \/ Year(d1) = Year(d2) /\ Month(d1) < Month(d2)
    \/ Year(d1) = Year(d2) /\ Month(d1) = Month(d2) /\ Day(d1) < Day(d2)

DateLE(d1, d2) == d1 = d2 \/ DateLT(d1, d2)

\* the day number lowered with no borrow from the month
MinusOneDayNoBorrow(dt) == MkDate(Year(dt), Month(dt), Day(dt) - 1)

\* the day before, with no borrow from the year on 1 January
MinusOneDayWithinYear(dt) ==
    IF Day(dt) > 1 THEN MkDate(Year(dt), Month(dt), Day(dt) - 1)
    ELSE IF Month(dt) > 1
         THEN MkDate(Year(dt), Month(dt) - 1, DaysInMonth(Year(dt), Month(dt) - 1))
         ELSE MkDate(Year(dt), 12, 31)

\* dt - timedelta(days=1)
MinusOneDay(dt) ==
    IF Day(dt) > 1 THEN MkDate(Year(dt), Month(dt), Day(dt) - 1)
    ELSE IF Month(dt) > 1
         THEN MkDate(Year(dt), Month(dt) - 1, DaysInMonth(Year(dt), Month(dt) - 1))
         ELSE MkDate(Year(dt) - 1, 12, 31)

RECURSIVE DaysBeforeMonth(_, _)
DaysBeforeMonth(y, m) ==
    IF m <= 1 THEN 0 ELSE DaysBeforeMonth(y, m - 1) + DaysInMonth(y, m - 1)

\* date.toordinal(): day 1 is 0001-01-01
Ordinal(dt) ==
    LET y1 == Year(dt) - 1
    IN  y1 * 365 + (y1 \div 4) - (y1 \div 100) + (y1 \div 400)
        + DaysBeforeMonth(Year(dt), Month(dt)) + Day(dt)


-----------------------------------------------------------------------------
(* Enumerations of src/models/bill.py: <<member, value>> *)

BillCategoryEnum ==
    << <<"electricity", <<"e","l","e","c","t","r","i","c","i","t","y">> >>,
       <<"water",       <<"w","a","t","e","r">> >>,
       <<"gas",         <<"g","a","s">> >>,
       <<"internet",    <<"i","n","t","e","r","n","e","t">> >>,
       <<"mobile",      <<"m","o","b","i","l","e">> >>,
       <<"groceries",   <<"g","r","o","c","e","r","i","e","s">> >>,
       <<"medical",     <<"m","e","d","i","c","a","l">> >>,
       <<"insurance",   <<"i","n","s","u","r","a","n","c","e">> >>,
       <<"rent",        <<"r","e","n","t">> >>,
       <<"maintenance", <<"m","a","i","n","t","e","n","a","n","c","e">> >>,
       <<"fuel",        <<"f","u","e","l">> >>,
       <<"other",       <<"o","t","h","e","r">> >> >>

BillCategories == {BillCategoryEnum[i][1] : i \in 1..Len(BillCategoryEnum)}

\* BillCategory(value): the member with that value, "ValueError" when there is none
BillCategory(value) ==
    IF \E i \in 1..Len(BillCategoryEnum) : BillCategoryEnum[i][2] = value
    THEN BillCategoryEnum[CHOOSE i \in 1..Len(BillCategoryEnum) :
                              BillCategoryEnum[i][2] = value][1]
    ELSE "ValueError"

PaymentStatuses == {"unpaid", "paid", "partial", "overdue"}

QueryTypes == {"lookup", "aggregate", "compare", "list", "exists"}

AggregationTypes == {"sum", "count", "average", "min", "max"}

GroupBys == {"category", "vendor", "month", "year"}

-----------------------------------------------------------------------------
(* QueryAgent._resolve_time_reference *)

MonthNames ==
    << <<"j","a","n","u","a","r","y">>,
       <<"f","e","b","r","u","a","r","y">>,
       <<"m","a","r","c","h">>,
       <<"a","p","r","i","l">>,
       <<"m","a","y">>,
       <<"j","u","n","e">>,
       <<"j","u","l","y">>,
       <<"a","u","g","u","s","t">>,
       <<"s","e","p","t","e","m","b","e","r">>,
       <<"o","c","t","o","b","e","r">>,
       <<"n","o","v","e","m","b","e","r">>,
       <<"d","e","c","e","m","b","e","r">> >>

ThisMonthPhrases ==
    { <<"t","h","i","s"," ","m","o","n","t","h">>,
      <<"c","u","r","r","e","n","t"," ","m","o","n","t","h">> }

LastMonthPhrases ==
    { <<"l","a","s","t"," ","m","o","n","t","h">>,
      <<"p","r","e","v","i","o","u","s"," ","m","o","n","t","h">> }

ThisYearPhrases ==
    { <<"t","h","i","s"," ","y","e","a","r">>,
      <<"c","u","r","r","e","n","t"," ","y","e","a","r">> }

LastYearPhrases ==
    { <<"l","a","s","t"," ","y","e","a","r">>,
      <<"p","r","e","v","i","o","u","s"," ","y","e","a","r">> }

\* every month taken to have thirty days
MonthRangeThirtyDays(y, m) == << MkDate(y, m, 1), MkDate(y, m, 30) >>

\* date(y, m, 1) .. the day before the first of the following month
MonthRange(y, m) ==
    << MkDate(y, m, 1),
       IF m = 12 THEN MinusOneDay(MkDate(y + 1, 1, 1))
                 ELSE MinusOneDay(MkDate(y, m + 1, 1)) >>

\* the months whose name occurs in the phrase, in the order of the dict
MentionedMonths(t) == {m \in 1..12 : Contains(t, MonthNames[m])}

FirstMentionedMonth(t) ==
    CHOOSE m \in MentionedMonths(t) : \A k \in MentionedMonths(t) : m <= k

\* re.search(r"20\d{2}", t): the start positions of a match
YearMatches(t) ==
    {i \in 1..(Len(t) - 3) :
        /\ t[i] = "2"
        /\ t[i + 1] = "0"
        /\ IsDigit(t[i + 2])
        /\ IsDigit(t[i + 3])}

FirstYearMatch(t) ==
    LET i == CHOOSE j \in YearMatches(t) : \A k \in YearMatches(t) : j <= k
    IN  2000 + 10 * DigitVal(t[i + 2]) + DigitVal(t[i + 3])

\* the resolver with the four-digit-year rule tried before the month names
ResolveYearBeforeMonth(time_ref, now) ==
    IF ~Truthy(time_ref) THEN <<NoDate, NoDate>>
    ELSE
    LET t == Strip(Lower(time_ref)) IN
    IF t \in ThisMonthPhrases THEN MonthRange(Year(now), Month(now))
    ELSE IF t \in LastMonthPhrases THEN
        LET end == MinusOneDay(MkDate(Year(now), Month(now), 1))
        IN  << MkDate(Year(end), Month(end), 1), end >>
    ELSE IF t \in ThisYearPhrases THEN
        << MkDate(Year(now), 1, 1), MkDate(Year(now), 12, 31) >>
    ELSE IF t \in LastYearPhrases THEN
        << MkDate(Year(now) - 1, 1, 1), MkDate(Year(now) - 1, 12, 31) >>
    ELSE IF YearMatches(t) # {} THEN
        << MkDate(FirstYearMatch(t), 1, 1), MkDate(FirstYearMatch(t), 12, 31) >>
    ELSE IF MentionedMonths(t) # {} THEN
        LET month_num == FirstMentionedMonth(t)
            year == IF month_num > Month(now) THEN Year(now) - 1 ELSE Year(now)
        IN  MonthRange(year, month_num)
    ELSE <<NoDate, NoDate>>

ResolveTimeReference(time_ref, now) ==
    IF ~Truthy(time_ref) THEN <<NoDate, NoDate>>
    ELSE
    LET t == Strip(Lower(time_ref)) IN
    IF t \in ThisMonthPhrases THEN
        << MkDate(Year(now), Month(now), 1),
           IF Month(now) = 12
           THEN MinusOneDay(MkDate(Year(now) + 1, 1, 1))
           ELSE MinusOneDay(MkDate(Year(now), Month(now) + 1, 1)) >>
    ELSE IF t \in LastMonthPhrases THEN
        LET end == MinusOneDay(MkDate(Year(now), Month(now), 1))
        IN  << MkDate(Year(end), Month(end), 1), end >>
    ELSE IF t \in ThisYearPhrases THEN
        << MkDate(Year(now), 1, 1), MkDate(Year(now), 12, 31) >>
    ELSE IF t \in LastYearPhrases THEN
        << MkDate(Year(now) - 1, 1, 1), MkDate(Year(now) - 1, 12, 31) >>
    ELSE IF MentionedMonths(t) # {} THEN
        LET month_num == FirstMentionedMonth(t)
            year == IF month_num > Month(now) THEN Year(now) - 1 ELSE Year(now)
        IN  MonthRange(year, month_num)
    ELSE IF YearMatches(t) # {} THEN
        << MkDate(FirstYearMatch(t), 1, 1), MkDate(FirstYearMatch(t), 12, 31) >>
    ELSE <<NoDate, NoDate>>

-----------------------------------------------------------------------------
(* QueryAgent.intent_to_query *)

\* category_filter: BillCategory(intent.category.lower()), None on ValueError
MapCategory(hint) ==
    IF ~Truthy(hint) THEN "None"
    ELSE IF BillCategory(Lower(hint)) = "ValueError" THEN "None"
    ELSE BillCategory(Lower(hint))

\* payment_filter: the if / elif chain over substrings of the lower-cased hint
MapPaymentStatus(hint) ==
    IF ~Truthy(hint) THEN "None"
    ELSE
    LET status_lower == Lower(hint) IN
    IF /\ Contains(status_lower, <<"p","a","i","d">>)
       /\ ~Contains(status_lower, <<"u","n">>)
    THEN "paid"
    ELSE IF \/ Contains(status_lower, <<"u","n","p","a","i","d">>)
            \/ Contains(status_lower, <<"n","o","t"," ","p","a","i","d">>)
    THEN "unpaid"
    ELSE IF Contains(status_lower, <<"o","v","e","r","d","u","e">>)
    THEN "overdue"
    ELSE "None"

\* agg_type
MapAggregation(hint) ==
    IF ~Truthy(hint) THEN "None"
    ELSE
    LET agg_lower == Lower(hint) IN
    IF agg_lower \in { <<"s","u","m">>, <<"t","o","t","a","l">> } THEN "sum"
    ELSE IF agg_lower \in { <<"c","o","u","n","t">>, <<"n","u","m","b","e","r">> }
    THEN "count"
    ELSE IF agg_lower \in { <<"a","v","e","r","a","g","e">>, <<"a","v","g">>,
                            <<"m","e","a","n">> }
    THEN "average"
    ELSE IF agg_lower \in { <<"m","i","n">>, <<"m","i","n","i","m","u","m">>,
                            <<"l","o","w","e","s","t">> }
    THEN "min"
    ELSE IF agg_lower \in { <<"m","a","x">>, <<"m","a","x","i","m","u","m">>,
                            <<"h","i","g","h","e","s","t">> }
    THEN "max"
    ELSE "None"

\* group
MapGroupBy(hint) ==
    IF ~Truthy(hint) THEN "None"
    ELSE
    LET g == Lower(hint) IN
    IF g \in { <<"c","a","t","e","g","o","r","y">>, <<"t","y","p","e">> } THEN "category"
    ELSE IF g \in { <<"v","e","n","d","o","r">>, <<"c","o","m","p","a","n","y">> }
    THEN "vendor"
    ELSE IF g \in { <<"m","o","n","t","h">> } THEN "month"
    ELSE IF g \in { <<"y","e","a","r">> } THEN "year"
    ELSE "None"

DefaultLimit == 10
MinLimit == 1
MaxLimit == 100

\* the field constraints pydantic enforces when a StructuredQuery is constructed
StructuredQueryValid(q) ==
    /\ q.query_type \in QueryTypes
    /\ q.aggregation_type \in AggregationTypes \cup {"None"}
    /\ q.group_by \in GroupBys \cup {"None"}
    /\ q.limit \in MinLimit..MaxLimit

\* the fields a StructuredQuery has (query_id and created_at carry no decision)
StructuredQueryFields ==
    {"original_question", "query_type", "category_filter", "vendor_filter",
     "date_from", "date_to", "payment_status_filter", "aggregation_type",
     "group_by", "limit"}

NoQuery == [query_type |-> "None"]

\* [raised |-> whether StructuredQuery(...) raised ValidationError, query |-> the result]
IntentToQuery(in, original_question, now) ==
    LET range == ResolveTimeReference(in.time_reference, now)
        q == [ original_question     |-> original_question,
               query_type            |-> in.query_type,
               category_filter       |-> MapCategory(in.category),
               vendor_filter         |-> in.vendor,
               date_from             |-> range[1],
               date_to               |-> range[2],
               payment_status_filter |-> MapPaymentStatus(in.payment_status),
               aggregation_type      |-> MapAggregation(in.aggregation),
               group_by              |-> MapGroupBy(in.group_by),
               limit                 |-> DefaultLimit ]
    IN  IF StructuredQueryValid(q)
        THEN [raised |-> FALSE, query |-> q]
        ELSE [raised |-> TRUE, query |-> NoQuery]

-----------------------------------------------------------------------------
(* Text of numbers, enum values and dates *)

\* the decimal digits of n, zero-padded to `width` places
RECURSIVE NumText(_, _)
NumText(n, width) ==
    IF width <= 1 /\ n < 10 THEN <<Digits[n + 1]>>
    ELSE NumText(n \div 10, width - 1) \o <<Digits[(n % 10) + 1]>>

\* member.value of the str-valued enums, and str(x) of the literal field values
Text(member) ==
    CASE member \in BillCategories ->
           BillCategoryEnum[CHOOSE i \in 1..Len(BillCategoryEnum) :
                                BillCategoryEnum[i][1] = member][2]
      [] member = "unpaid"   -> <<"u","n","p","a","i","d">>
      [] member = "paid"     -> <<"p","a","i","d">>
      [] member = "partial"  -> <<"p","a","r","t","i","a","l">>
      [] member = "overdue"  -> <<"o","v","e","r","d","u","e">>
      [] member = "sum"      -> <<"s","u","m">>
      [] member = "count"    -> <<"c","o","u","n","t">>
      [] member = "average"  -> <<"a","v","e","r","a","g","e">>
      [] member = "min"      -> <<"m","i","n">>
      [] member = "max"      -> <<"m","a","x">>
      [] member = "category" -> <<"c","a","t","e","g","o","r","y">>
      [] member = "vendor"   -> <<"v","e","n","d","o","r">>
      [] member = "month"    -> <<"m","o","n","t","h">>
      [] member = "year"     -> <<"y","e","a","r">>

\* %B and %b of strftime
MonthFullNames ==
    << <<"J","a","n","u","a","r","y">>, <<"F","e","b","r","u","a","r","y">>, <<"M","a","r","c","h">>, <<"A","p","r","i","l">>, <<"M","a","y">>, <<"J","u","n","e">>, <<"J","u","l","y">>,
       <<"A","u","g","u","s","t">>, <<"S","e","p","t","e","m","b","e","r">>, <<"O","c","t","o","b","e","r">>, <<"N","o","v","e","m","b","e","r">>, <<"D","e","c","e","m","b","e","r">> >>

MonthAbbrs ==
    << <<"J","a","n">>, <<"F","e","b">>, <<"M","a","r">>, <<"A","p","r">>, <<"M","a","y">>, <<"J","u","n">>, <<"J","u","l">>, <<"A","u","g">>, <<"S","e","p">>, <<"O","c","t">>,
       <<"N","o","v">>, <<"D","e","c">> >>

\* date.isoformat()
IsoFormat(dt) ==
    NumText(Year(dt), 4) \o <<"-">> \o NumText(Month(dt), 2) \o <<"-">> \o NumText(Day(dt), 2)

\* strftime("%d %b %Y"), ("%B %Y"), ("%b %Y"), ("%b"), ("%Y-%m")
FmtDayMonYear(dt) ==
    NumText(Day(dt), 2) \o <<" ">> \o MonthAbbrs[Month(dt)] \o <<" ">> \o NumText(Year(dt), 4)

FmtMonthYear(dt) == MonthFullNames[Month(dt)] \o <<" ">> \o NumText(Year(dt), 4)

FmtMonYear(dt) == MonthAbbrs[Month(dt)] \o <<" ">> \o NumText(Year(dt), 4)

FmtMon(dt) == MonthAbbrs[Month(dt)]

FmtYearMonth(dt) == NumText(Year(dt), 4) \o <<"-">> \o NumText(Month(dt), 2)

\* sep.join(parts)
RECURSIVE Join(_, _)
Join(sep, parts) ==
    IF Len(parts) = 0 THEN <<>>
    ELSE IF Len(parts) = 1 THEN parts[1]
    ELSE parts[1] \o sep \o Join(sep, Tail(parts))

-----------------------------------------------------------------------------
(* GoogleSheetsBillStorage: the bills worksheet is a sequence of rows.  A  *)
(* row is a ConfirmedBill ([ok |-> TRUE, ...]) or a row _row_to_bill       *)
(* cannot parse ([ok |-> FALSE]).                                          *)

MalformedRow == [ok |-> FALSE]

\* the filters of list_bills on one parsed bill
BillMatches(bill, category, vendor, date_from, date_to, payment_status) ==
    /\ ~(category # "None" /\ bill.category # category)
    /\ ~(Truthy(vendor) /\ ~Contains(Lower(bill.vendor_name), Lower(vendor)))
    /\ ~(date_from # NoDate /\ DateLT(bill.bill_date, date_from))
    /\ ~(date_to # NoDate /\ DateLT(date_to, bill.bill_date))
    /\ ~(payment_status # "None" /\ bill.payment_status # payment_status)

\* bills.sort(key=bill_date, reverse=True): stable, newest first
InsertByDateDesc(sorted, bill) ==
    LET n == Cardinality({i \in 1..Len(sorted) : DateLE(bill.bill_date, sorted[i].bill_date)})
    IN  SubSeq(sorted, 1, n) \o <<bill>> \o SubSeq(sorted, n + 1, Len(sorted))

\* the bills left in worksheet order
Unsorted(bills) == bills

RECURSIVE SortByDateDesc(_)
SortByDateDesc(bills) ==
    IF Len(bills) = 0 THEN <<>>
    ELSE InsertByDateDesc(SortByDateDesc(SubSeq(bills, 1, Len(bills) - 1)), bills[Len(bills)])

\* the whole list, unpaginated
SliceAll(s, offset, limit) == s

\* bills[offset:offset + limit]
Slice(s, offset, limit) ==
    SubSeq(s, offset + 1, IF offset + limit < Len(s) THEN offset + limit ELSE Len(s))

\* list_bills when the worksheet can be read
ListBills(rows, category, vendor, date_from, date_to, payment_status, limit, offset) ==
    LET Keep(row) ==
            row.ok /\ BillMatches(row, category, vendor, date_from, date_to, payment_status)
    IN  Slice(SortByDateDesc(SelectSeq(rows, Keep)), offset, limit)

BillExistsLimit == 100

\* bill_exists counting any same-day bill of the vendor
BillExistsByVendorAndDate(rows, vendor, bill_number, bill_date) ==
    Len(ListBills(rows, "None", vendor, bill_date, bill_date, "None", BillExistsLimit, 0)) > 0

\* bill_exists: only a bill-number match among the same-day bills of the vendor counts
BillExists(rows, vendor, bill_number, bill_date) ==
    LET bills == ListBills(rows, "None", vendor, bill_date, bill_date, "None",
                           BillExistsLimit, 0)
    IN  \E i \in 1..Len(bills) :
            Truthy(bill_number) /\ bills[i].bill_number = bill_number

-----------------------------------------------------------------------------
(* QueryExecutor *)

AggregateFetchLimit == 1000
ExistsFetchLimit == 1

NoAggregation == [none |-> TRUE]

\* the query's own limit passed on by every handler
FetchLimitOfQuery(query) == query.limit

\* the limit each handler passes to list_bills (an unknown query type is run as list)
FetchLimit(query) ==
    IF query.query_type \in {"aggregate", "compare"} THEN AggregateFetchLimit
    ELSE IF query.query_type = "exists" THEN ExistsFetchLimit
    ELSE query.limit

\* a list_bills call that always passes the query's own limit
ListCallWithQueryLimit(query) ==
    [ category       |-> query.category_filter,
      vendor         |-> query.vendor_filter,
      date_from      |-> query.date_from,
      date_to        |-> query.date_to,
      payment_status |-> query.payment_status_filter,
      limit          |-> query.limit,
      offset         |-> 0 ]

\* the arguments of the list_bills call every handler starts with
ListCall(query) ==
    [ category       |-> query.category_filter,
      vendor         |-> query.vendor_filter,
      date_from      |-> query.date_from,
      date_to        |-> query.date_to,
      payment_status |-> query.payment_status_filter,
      limit          |-> FetchLimit(query),
      offset         |-> 0 ]

\* _bill_to_dict (float(total_amount) is kept as the paise it stands for)
BillToDict(bill) ==
    [ id             |-> bill.id,
      vendor_name    |-> bill.vendor_name,
      category       |-> Text(bill.category),
      total_amount   |-> bill.total_amount,
      bill_date      |-> IsoFormat(bill.bill_date),
      due_date       |-> IF bill.due_date # NoDate THEN IsoFormat(bill.due_date) ELSE NoneStr,
      payment_status |-> Text(bill.payment_status),
      bill_number    |-> bill.bill_number ]

\* _date_range_str
DateRangeStr(date_from, date_to) ==
    IF date_from # NoDate /\ date_to # NoDate THEN
        IF date_from = date_to THEN <<"o","n"," ">> \o FmtDayMonYear(date_from)
        ELSE IF Month(date_from) = Month(date_to) /\ Year(date_from) = Year(date_to)
        THEN <<"i","n"," ">> \o FmtMonthYear(date_from)
        ELSE IF Year(date_from) = Year(date_to)
        THEN <<"f","r","o","m"," ">> \o FmtMon(date_from) \o <<" ","t","o"," ">> \o FmtMonYear(date_to)
        ELSE <<"f","r","o","m"," ">> \o FmtMonYear(date_from) \o <<" ","t","o"," ">> \o FmtMonYear(date_to)
    ELSE IF date_from # NoDate THEN <<"f","r","o","m"," ">> \o FmtDayMonYear(date_from)
    ELSE IF date_to # NoDate THEN <<"u","n","t","i","l"," ">> \o FmtDayMonYear(date_to)
    ELSE <<>>

\* every part, whether or not its condition holds
PartsUnfiltered(conditional) == [i \in 1..Len(conditional) |-> conditional[i][2]]

\* a list of the parts whose condition holds, in the order given
Parts(conditional) ==
    LET kept == SelectSeq(conditional, LAMBDA p : p[1])
    IN  [i \in 1..Len(kept) |-> kept[i][2]]

HasDates(query) == query.date_from # NoDate \/ query.date_to # NoDate

QueryResult(success, error_message, data_found, result_count, results, aggregation_result, query_description) ==
    [ success            |-> success,
      error_message      |-> error_message,
      data_found         |-> data_found,
      result_count       |-> result_count,
      results            |-> results,
      aggregation_result |-> aggregation_result,
      query_description  |-> query_description ]

DictsOf(bills) == [i \in 1..Len(bills) |-> BillToDict(bills[i])]

\* _execute_lookup, after list_bills returned `bills`
ExecuteLookup(query, bills) ==
    LET results == DictsOf(bills)
        desc_parts ==
            Parts(<< <<TRUE, <<"L","o","o","k","i","n","g"," ","f","o","r"," ","b","i","l","l","s">>>>,
                     <<query.category_filter # "None",
                       <<"c","a","t","e","g","o","r","y",":"," ">> \o
                         (IF query.category_filter # "None"
                          THEN Text(query.category_filter) ELSE <<>>)>>,
                     <<Truthy(query.vendor_filter), <<"v","e","n","d","o","r",":"," ">> \o query.vendor_filter>>,
                     <<HasDates(query), DateRangeStr(query.date_from, query.date_to)>> >>)
    IN  QueryResult(TRUE, NoneStr, Len(results) > 0, Len(results), results,
                    NoAggregation, Join(<<" ","|"," ">>, desc_parts))

\* _execute_list, after list_bills returned `bills`
ExecuteList(query, bills) ==
    LET results == DictsOf(bills)
        desc_parts ==
            Parts(<< <<TRUE, <<"L","i","s","t","i","n","g"," ","b","i","l","l","s">>>>,
                     <<query.category_filter # "None",
                       <<"c","a","t","e","g","o","r","y",":"," ">> \o
                         (IF query.category_filter # "None"
                          THEN Text(query.category_filter) ELSE <<>>)>>,
                     <<Truthy(query.vendor_filter), <<"v","e","n","d","o","r",":"," ">> \o query.vendor_filter>>,
                     <<query.payment_status_filter # "None",
                       <<"s","t","a","t","u","s",":"," ">> \o
                         (IF query.payment_status_filter # "None"
                          THEN Text(query.payment_status_filter) ELSE <<>>)>>,
                     <<HasDates(query), DateRangeStr(query.date_from, query.date_to)>> >>)
    IN  QueryResult(TRUE, NoneStr, Len(results) > 0, Len(results), results,
                    NoAggregation, Join(<<" ","|"," ">>, desc_parts))

\* the first amount only
SumOfFirst(amounts) == IF Len(amounts) = 0 THEN 0 ELSE Head(amounts)

RECURSIVE SumSeq(_)
SumSeq(amounts) == IF Len(amounts) = 0 THEN 0 ELSE Head(amounts) + SumSeq(Tail(amounts))

MinSeq(amounts) ==
    CHOOSE a \in {amounts[i] : i \in 1..Len(amounts)} :
        \A i \in 1..Len(amounts) : a <= amounts[i]

MaxSeq(amounts) ==
    CHOOSE a \in {amounts[i] : i \in 1..Len(amounts)} :
        \A i \in 1..Len(amounts) : a >= amounts[i]

\* sum(amounts) / len(amounts), kept exact as a fraction of paise
Average(amounts) == [num |-> SumSeq(amounts), den |-> Len(amounts)]

\* every bill put under the fallback key
GroupKeyOther(bill, group_by) == <<"o","t","h","e","r">>

\* the group key of one bill
GroupKey(bill, group_by) ==
    IF group_by = "category" THEN Text(bill.category)
    ELSE IF group_by = "vendor" THEN bill.vendor_name
    ELSE IF group_by = "month" THEN FmtYearMonth(bill.bill_date)
    ELSE IF group_by = "year" THEN NumText(Year(bill.bill_date), 1)
    ELSE <<"o","t","h","e","r">>

\* _execute_grouped_aggregate: key -> aggregation of the amounts of that key
ExecuteGroupedAggregate(bills, group_by, aggregation_type) ==
    LET keys == {GroupKey(bills[i], group_by) : i \in 1..Len(bills)}
        AmountsOf(key) ==
            LET InGroup(bill) == GroupKey(bill, group_by) = key
                members == SelectSeq(bills, InGroup)
            IN  [i \in 1..Len(members) |-> members[i].total_amount]
    IN  [key \in keys |->
            IF aggregation_type = "count" THEN Len(AmountsOf(key))
            ELSE IF aggregation_type = "average" THEN Average(AmountsOf(key))
            ELSE IF aggregation_type = "min" THEN MinSeq(AmountsOf(key))
            ELSE IF aggregation_type = "max" THEN MaxSeq(AmountsOf(key))
            ELSE SumSeq(AmountsOf(key))]

\* _execute_aggregate, after list_bills returned `bills`
ExecuteAggregate(query, bills) ==
    IF Len(bills) = 0
    THEN QueryResult(TRUE, NoneStr, FALSE, 0, <<>>, NoAggregation,
                     <<"N","o"," ","b","i","l","l","s"," ","f","o","u","n","d"," ","f","o","r"," ","a","g","g","r","e","g","a","t","i","o","n">>)
    ELSE
    LET amounts == [i \in 1..Len(bills) |-> bills[i].total_amount]
        base ==
            IF query.aggregation_type \in {"sum", "None"}
            THEN [total_amount |-> SumSeq(amounts), bill_count |-> Len(amounts)]
            ELSE IF query.aggregation_type = "count"
            THEN [count |-> Len(amounts)]
            ELSE IF query.aggregation_type = "average"
            THEN [average_amount |-> Average(amounts), bill_count |-> Len(amounts)]
            ELSE IF query.aggregation_type = "min"
            THEN [minimum_amount |-> MinSeq(amounts)]
            ELSE [maximum_amount |-> MaxSeq(amounts)]
        aggregation_result ==
            IF query.group_by # "None"
            THEN base @@ [breakdown |->
                            ExecuteGroupedAggregate(bills, query.group_by,
                                                    query.aggregation_type)]
            ELSE base
        desc_parts ==
            Parts(<< <<query.aggregation_type # "None",
                       <<"C","a","l","c","u","l","a","t","i","n","g"," ">> \o
                         (IF query.aggregation_type # "None"
                          THEN Text(query.aggregation_type) ELSE <<>>)>>,
                     <<query.aggregation_type = "None", <<"C","a","l","c","u","l","a","t","i","n","g"," ","t","o","t","a","l">>>>,
                     <<query.category_filter # "None",
                       <<"f","o","r"," ">> \o
                         (IF query.category_filter # "None"
                          THEN Text(query.category_filter) ELSE <<>>)>>,
                     <<Truthy(query.vendor_filter), <<"f","r","o","m"," ">> \o query.vendor_filter>>,
                     <<HasDates(query), DateRangeStr(query.date_from, query.date_to)>>,
                     <<query.group_by # "None",
                       <<"g","r","o","u","p","e","d"," ","b","y"," ">> \o
                         (IF query.group_by # "None" THEN Text(query.group_by) ELSE <<>>)>> >>)
    IN  QueryResult(TRUE, NoneStr, TRUE, Len(bills), <<>>, aggregation_result,
                    Join(<<" ">>, desc_parts))

\* _execute_exists, after list_bills returned `bills`
ExecuteExists(query, bills) ==
    LET exists == Len(bills) > 0
        desc_parts ==
            Parts(<< <<TRUE, <<"C","h","e","c","k","i","n","g"," ","i","f">>>>,
                     <<query.category_filter # "None",
                       (IF query.category_filter # "None"
                        THEN Text(query.category_filter) ELSE <<>>) \o <<" ","b","i","l","l">>>>,
                     <<query.category_filter = "None", <<"b","i","l","l">>>>,
                     <<query.payment_status_filter # "None",
                       <<"w","a","s"," ">> \o
                         (IF query.payment_status_filter # "None"
                          THEN Text(query.payment_status_filter) ELSE <<>>)>>,
                     <<Truthy(query.vendor_filter), <<"f","r","o","m"," ">> \o query.vendor_filter>>,
                     <<HasDates(query), DateRangeStr(query.date_from, query.date_to)>> >>)
        answer == [exists |-> exists, answer |-> IF exists THEN <<"y","e","s">> ELSE <<"n","o">>]
        result_data == IF exists THEN <<answer, BillToDict(bills[1])>> ELSE <<answer>>
    IN  QueryResult(TRUE, NoneStr, exists, IF exists THEN 1 ELSE 0, result_data,
                    NoAggregation, Join(<<" ">>, desc_parts))

\* compare that always sums, whatever aggregation was asked for
ExecuteCompareSummed(query, bills) ==
    ExecuteAggregate([query EXCEPT !.aggregation_type = "sum"], bills)

\* compare run as a list query
ExecuteCompareAsList(query, bills) == ExecuteList(query, bills)

\* _execute_compare
ExecuteCompare(query, bills) == ExecuteAggregate(query, bills)

\* the body of the try block of execute, once list_bills has returned
ExecuteRoute(query, bills) ==
    IF query.query_type = "lookup" THEN ExecuteLookup(query, bills)
    ELSE IF query.query_type = "list" THEN ExecuteList(query, bills)
    ELSE IF query.query_type = "aggregate" THEN ExecuteAggregate(query, bills)
    ELSE IF query.query_type = "exists" THEN ExecuteExists(query, bills)
    ELSE IF query.query_type = "compare" THEN ExecuteCompare(query, bills)
    ELSE ExecuteList(query, bills)

\* a failed result that still reports data
ExecuteFailedWithData(query, e) ==
    QueryResult(FALSE, e, TRUE, 0, <<>>, NoAggregation, <<"Q","u","e","r","y"," ","f","a","i","l","e","d",":"," ">> \o e)

\* the except branch of execute: e is str(exception)
ExecuteFailed(query, e) ==
    QueryResult(FALSE, e, FALSE, 0, <<>>, NoAggregation, <<"Q","u","e","r","y"," ","f","a","i","l","e","d",":"," ">> \o e)

\* execute without its `except Exception`
ExecuteOutcomeUncaught(query, response) ==
    IF response.raised
    THEN [raised |-> TRUE, result |-> ExecuteFailed(query, response.error)]
    ELSE [raised |-> FALSE, result |-> ExecuteRoute(query, response.bills)]

\* what execute hands to its caller once the record source has answered:
\* [raised |-> an exception left execute, result |-> the QueryResult returned]
ExecuteOutcome(query, response) ==
    IF response.raised
    THEN [raised |-> FALSE, result |-> ExecuteFailed(query, response.error)]
    ELSE [raised |-> FALSE, result |-> ExecuteRoute(query, response.bills)]

-----------------------------------------------------------------------------
(* BillValidator.  An ExtractedBillData is a record                        *)
(*   [total_amount, subtotal, tax_amount : paise or NoAmount,              *)
(*    vendor : the vendor's name, NoneStr when vendor is None (VendorInfo  *)
(*             admits no empty name),                                      *)
(*    bill_number : text or NoneStr,                                       *)
(*    bill_date, due_date, billing_period_start, billing_period_end,       *)
(*    confidence_score : per cent].                                        *)

NoAmount == -1

\* truth value of an Optional[Decimal]: None and 0 are false
AmountTruthy(a) == a # NoAmount /\ a # 0

FutureDateToleranceDays == 7
MaxBillAmountPaise == 100000000
OldDateDays == 730
LowConfidencePercent == 50
LowAmountPaise == 100
InconsistencyFloorPaise == 1000
TolerancePercent == 5
VendorAlphaTenths == 3

\* a ValidationIssue whose suspicious_value findings block like errors
ValidationIssueEscalated(field, issue_type, message, severity) ==
    [field |-> field, issue_type |-> issue_type, message |-> message,
     severity |-> IF issue_type = "suspicious_value" THEN "error" ELSE severity]

ValidationIssue(field, issue_type, message, severity) ==
    [field |-> field, issue_type |-> issue_type, message |-> message,
     severity |-> severity]

\* the issues of a list of <<condition, issue>> whose condition holds, in order
Issues(conditional) ==
    LET kept == SelectSeq(conditional, LAMBDA p : p[1])
    IN  [i \in 1..Len(kept) |-> kept[i][2]]

HasError(issues) == \E i \in 1..Len(issues) : issues[i].severity = "error"

\* `elif extracted.total_amount <= 0` with the comparison made strict
AmountNegative(total_amount) == total_amount # NoAmount /\ total_amount < 0

\* `elif extracted.total_amount <= 0`, reached when the amount is not None
AmountNotPositive(total_amount) == total_amount # NoAmount /\ total_amount <= 0

\* _validate_schema: [valid, issues]
ValidateSchema(extracted) ==
    LET issues ==
          Issues(<<
            <<extracted.total_amount = NoAmount,
              ValidationIssue("total_amount", "missing",
                  "Total amount is required but was not extracted", "error")>>,
            <<AmountNotPositive(extracted.total_amount),
              ValidationIssue("total_amount", "invalid_value",
                  "Total amount must be greater than zero", "error")>>,
            <<extracted.vendor = NoneStr \/ Len(extracted.vendor) = 0,
              ValidationIssue("vendor", "missing",
                  "Vendor/company name is required but was not extracted", "warning")>>,
            <<extracted.bill_date = NoDate,
              ValidationIssue("bill_date", "missing",
                  "Bill date is required but was not extracted", "warning")>>,
            <<extracted.confidence_score < LowConfidencePercent,
              ValidationIssue("confidence_score", "low_confidence",
                  "Extraction confidence is low", "warning")>>,
            <<extracted.total_amount = NoAmount /\ extracted.vendor = NoneStr
                /\ extracted.bill_date = NoDate,
              ValidationIssue("extraction", "empty",
                  "No meaningful data could be extracted from this image", "error")>> >>)
    IN  [valid |-> ~HasError(issues), issues |-> issues]

Abs(x) == IF x < 0 THEN -x ELSE x

AlphaCount(name) == Cardinality({i \in 1..Len(name) : IsAlpha(name[i])})

\* _validate_semantic: [valid, issues]
ValidateSemantic(extracted, now) ==
    LET has_date == extracted.bill_date # NoDate
        expected_total == extracted.subtotal + extracted.tax_amount
        diff == Abs(extracted.total_amount - expected_total)
        issues ==
          Issues(<<
            <<has_date /\ Ordinal(extracted.bill_date)
                            > Ordinal(now) + FutureDateToleranceDays,
              ValidationIssue("bill_date", "future_date",
                  "Bill date is in the future", "warning")>>,
            <<has_date /\ Ordinal(extracted.bill_date) < Ordinal(now) - OldDateDays,
              ValidationIssue("bill_date", "suspicious_date",
                  "Bill date seems unusually old", "warning")>>,
            <<extracted.due_date # NoDate /\ has_date
                /\ DateLT(extracted.due_date, extracted.bill_date),
              ValidationIssue("due_date", "inconsistent",
                  "Due date is before bill date", "warning")>>,
            <<AmountTruthy(extracted.total_amount)
                /\ extracted.total_amount > MaxBillAmountPaise,
              ValidationIssue("total_amount", "suspicious_value",
                  "Amount seems unusually high", "warning")>>,
            <<AmountTruthy(extracted.total_amount)
                /\ extracted.total_amount < LowAmountPaise,
              ValidationIssue("total_amount", "suspicious_value",
                  "Amount seems unusually low", "warning")>>,
            <<AmountTruthy(extracted.subtotal) /\ AmountTruthy(extracted.tax_amount)
                /\ AmountTruthy(extracted.total_amount)
                /\ diff > (expected_total * TolerancePercent) \div 100
                /\ diff > InconsistencyFloorPaise,
              ValidationIssue("total_amount", "inconsistent",
                  "Total doesn't match subtotal + tax", "warning")>>,
            <<extracted.billing_period_start # NoDate
                /\ extracted.billing_period_end # NoDate
                /\ DateLT(extracted.billing_period_end, extracted.billing_period_start),
              ValidationIssue("billing_period", "inconsistent",
                  "Billing period end is before start", "warning")>>,
            <<Truthy(extracted.vendor)
                /\ AlphaCount(extracted.vendor) * 10 < VendorAlphaTenths * Len(extracted.vendor),
              ValidationIssue("vendor", "suspicious_value",
                  "Vendor name looks unusual (too many numbers/symbols)", "warning")>> >>)
    IN  [valid |-> ~HasError(issues), issues |-> issues]

\* validate entering stage 2 whatever stage 1 found
Stage2Always(schema_valid) == TRUE

\* validate: stage 2 is entered only under `if schema_valid`
Stage2Runs(schema_valid) == schema_valid

\* _check_duplicates: whether bill_exists is awaited at all
ChecksDuplicates(storage_configured, extracted) ==
    /\ storage_configured
    /\ extracted.vendor # NoneStr
    /\ Len(extracted.vendor) > 0
    /\ extracted.bill_date # NoDate

\* _check_duplicates without its `except Exception: pass`
CheckDuplicatesUncaught(response) ==
    [ raised |-> response.raised,
      issues |-> IF ~response.raised /\ response.is_duplicate
                 THEN << ValidationIssue("duplicate", "potential_duplicate",
                             "A bill from this vendor with this date may already exist",
                             "warning") >>
                 ELSE <<>> ]

\* _check_duplicates once the awaited bill_exists ended (response = [raised,
\* is_duplicate]): `except Exception: pass` keeps a failure from the caller
CheckDuplicatesOutcome(response) ==
    [ raised |-> FALSE,
      issues |-> IF ~response.raised /\ response.is_duplicate
                 THEN << ValidationIssue("duplicate", "potential_duplicate",
                             "A bill from this vendor with this date may already exist",
                             "warning") >>
                 ELSE <<>> ]

\* can_proceed looking at the amount's presence only
CanProceedOnAmountAlone(extracted, all_issues) == extracted.total_amount # NoAmount

\* can_proceed
CanProceed(extracted, all_issues) ==
    /\ extracted.total_amount # NoAmount
    /\ ~\E i \in 1..Len(all_issues) :
           all_issues[i].severity = "error" /\ all_issues[i].field # "vendor"

WarningsOf(all_issues) ==
    LET warn == SelectSeq(all_issues, LAMBDA issue : issue.severity = "warning")
    IN  [i \in 1..Len(warn) |-> warn[i].message]

\* the ValidationResult validate builds from what the stages produced
ValidationResult(extracted, schema_valid, semantic_valid, all_issues) ==
    [ schema_valid            |-> schema_valid,
      semantic_valid          |-> semantic_valid,
      is_valid                |-> schema_valid /\ semantic_valid,
      can_proceed_with_review |-> CanProceed(extracted, all_issues),
      issues                  |-> all_issues,
      warnings                |-> WarningsOf(all_issues) ]

-----------------------------------------------------------------------------
(* QueryAgent.generate_response and QueryFlow.answer_question *)

\* the LLM's answer text (response.text.strip()), opaque to the flow
LlmText == <<"<","l","l","m",">">>

\* [raised, response]: generate_response reads query.query_description, in the
\* no-data branch and again when it builds the prompt (before its try block);
\* reading an attribute the model class does not have raises AttributeError
GenerateResponse(query, result, llm_ok) ==
    IF "query_description" \notin DOMAIN query
    THEN [raised |-> TRUE, response |-> NoneStr]
    ELSE IF ~result.data_found
    THEN [raised |-> FALSE,
          response |-> <<"I"," ","d","o","n","'","t"," ","h","a","v","e"," ","a","n","y"," ","r","e","c","o","r","d","s"," ","m","a","t","c","h","i","n","g"," ","y","o","u","r"," ","q","u","e","s","t","i","o","n","."," ","(">>
                       \o query.query_description \o <<")">>]
    ELSE IF llm_ok THEN [raised |-> FALSE, response |-> LlmText]
    ELSE IF result.aggregation_result # NoAggregation
    THEN [raised |-> FALSE, response |-> <<"B","a","s","e","d"," ","o","n"," ","y","o","u","r"," ","r","e","c","o","r","d","s",":"," ","<","d","a","t","a",">">>]
    ELSE [raised |-> FALSE,
          response |-> <<"F","o","u","n","d"," ">> \o NumText(result.result_count, 1)
                       \o <<" ","m","a","t","c","h","i","n","g"," ","r","e","c","o","r","d","s",".">>]

\* the triple answer_question returns when no executor was built
NotConfiguredAnswer ==
    [ raised |-> FALSE,
      answer |-> <<"I"," ","c","a","n","'","t"," ","a","n","s","w","e","r"," ","q","u","e","s","t","i","o","n","s"," ","y","e","t"," ","b","e","c","a","u","s","e"," ","t","h","e"," ","d","a","t","a"," ","s","t","o","r","a","g","e"," ","i","s","n","'","t"," ","c","o","n","f","i","g","u","r","e","d","."," ","P","l","e","a","s","e"," ","s","e","t"," ","u","p"," ","G","o","o","g","l","e"," ","S","h","e","e","t","s"," ","f","i","r","s","t",".">>,
      result |-> QueryResult(FALSE, <<"S","t","o","r","a","g","e"," ","n","o","t"," ","c","o","n","f","i","g","u","r","e","d">>, FALSE, 0, <<>>,
                             NoAggregation, <<"N","o"," ","s","t","o","r","a","g","e">>),
      query  |-> NoQuery ]

NoResult == [success |-> FALSE, none |-> TRUE]

\* answer_question left by an exception
FlowRaised == [raised |-> TRUE, answer |-> NoneStr, result |-> NoResult, query |-> NoQuery]

\* the AuditEvent of log_query_executed
QueryExecutedEvent(query, result) ==
    [ event_type   |-> "QUERY_EXECUTED",
      query_type   |-> query.query_type,
      result_count |-> result.result_count ]

-----------------------------------------------------------------------------
(* State *)

VARIABLES
    today,       \* date.today()
    sheet,       \* the rows of the bills worksheet
    audit_log,   \* the audit events logged so far
    \* QueryAgent.intent_to_query
    intent,      \* the QueryIntent being converted
    npc,         \* "idle", "ready", "returned", "raised"
    nquery,      \* the StructuredQuery returned
    \* QueryExecutor.execute
    equery,      \* the StructuredQuery being executed
    epc,         \* "idle", "ready", "awaiting" (list_bills in flight), "done"
    ecall,       \* the arguments of the list_bills call in flight
    eresponse,   \* how the record source ended that call
    eout,        \* [raised, result] handed to the caller
    \* QueryFlow.answer_question
    fconfigured, \* a record source was given, so a QueryExecutor exists
    faudit,      \* an AuditLogger was given
    fpc,         \* "idle", "ready", "executing", "auditing", "responding", "done"
    fquery,      \* the StructuredQuery of the question
    fresult,     \* the QueryResult of execute
    fcalls,      \* [parse, execute]: calls made to the parser and the executor
    fout,        \* [raised, answer, result, query] handed to the caller
    \* BillValidator.validate
    extracted,   \* the ExtractedBillData being validated
    vstorage,    \* a record source was given to the validator
    vpc,         \* "idle", "ready", "awaiting" (bill_exists in flight), "done"
    vcall,       \* the arguments of the bill_exists call in flight
    vresponse,   \* how the record source ended that call
    vstage,      \* what the stages produced and which of them ran
    vout,        \* [raised, result] handed to the caller
    \* a second call on the same QueryExecutor or BillValidator instance
    sinput,      \* its StructuredQuery or ExtractedBillData
    spc,         \* "idle", "ready", "awaiting", "done"
    scall,       \* the arguments of its record-source call in flight
    sresponse,   \* how the record source ended that call
    sstage,      \* what the validation stages produced
    sout,        \* [raised, result] handed to its caller
    \* the upload page and BillUploadFlow
    ustorage,       \* a record source was given to the flow
    uaudit,         \* an AuditLogger was given to the flow
    upload_state,   \* st.session_state.upload_state
    extracted_data, \* st.session_state.extracted_data
    validation,     \* st.session_state.validation
    saved_bill,     \* st.session_state.saved_bill
    upc,            \* "ui", or "saving" while save_bill is in flight
    ubill,          \* the ConfirmedBill of the confirm_and_save call in flight
    attempt,        \* the values of the last Confirm click and how it ended
    uploads,        \* bills sent to processing so far
    built           \* ConfirmedBills constructed so far

envVars == <<today, sheet, audit_log>>
normVars == <<intent, npc, nquery>>
execVars == <<equery, epc, ecall, eresponse, eout>>
flowVars == <<fconfigured, faudit, fpc, fquery, fresult, fcalls, fout>>
valVars == <<extracted, vstorage, vpc, vcall, vresponse, vstage, vout>>
secondVars == <<sinput, spc, scall, sresponse, sstage, sout>>
sessionVars == <<upload_state, extracted_data, validation, saved_bill>>
upVars == <<ustorage, uaudit, sessionVars, upc, ubill, attempt, uploads, built>>

vars == <<envVars, normVars, execVars, flowVars, valVars, secondVars, upVars>>

-----------------------------------------------------------------------------
(* Inputs: hints the language model may hand over *)

MaxFrags == 2

StatusFragments ==
    { <<"u","n">>, <<"n","o","t"," ">>, <<"N","O","T"," ">>, <<"p","a","i","d">>, <<"o","v","e","r","d","u","e">> }

RECURSIVE Flatten(_)
Flatten(ss) == IF Len(ss) = 0 THEN <<>> ELSE Head(ss) \o Flatten(Tail(ss))

\* every concatenation of at most MaxFrags fragments ("" included), and None
StatusHints ==
    {NoneStr} \cup
    UNION { {Flatten(fs) : fs \in [1..n -> StatusFragments]} : n \in 0..MaxFrags }

CategoryHints == { NoneStr, <<"G","a","s">>, <<"p","e","t","r","o","l">> }

VendorHints == { NoneStr, <<"a","c","m","e">> }

TimeHints == { NoneStr, <<" ","L","a","s","t"," ","M","o","n","t","h">>, <<"s","o","m","e","d","a","y">> }

AggregationHints == { NoneStr, <<"T","o","t","a","l">>, <<"m","e","d","i","a","n">> }

GroupByHints == { NoneStr, <<"T","y","p","e">>, <<"w","e","e","k">> }

QueryTypeHints == QueryTypes \cup {"summarize"}

Todays == { MkDate(2024, 1, 15), MkDate(2024, 12, 31) }

Question == <<"q">>

NormIntents ==
    [ query_type     : QueryTypeHints,
      category       : CategoryHints,
      vendor         : VendorHints,
      time_reference : TimeHints,
      payment_status : StatusHints,
      aggregation    : AggregationHints,
      group_by       : GroupByHints ]

NoIntent == [query_type |-> "None"]

-----------------------------------------------------------------------------
(* Inputs: worksheets *)

MaxRows == 2

Bill(id, vendor_name, category, total_amount, bill_date, due_date, payment_status, bill_number) ==
    [ ok             |-> TRUE,
      id             |-> id,
      vendor_name    |-> vendor_name,
      category       |-> category,
      total_amount   |-> total_amount,
      bill_date      |-> bill_date,
      due_date       |-> due_date,
      payment_status |-> payment_status,
      bill_number    |-> bill_number ]

RowPool ==
    { Bill(1, <<"A","c","m","e">>, "gas", 10000, MkDate(2024, 1, 10), NoDate, "paid", <<"B","1">>),
      Bill(2, <<"a","c","m","e"," ","g","a","s">>, "gas", 30000, MkDate(2024, 1, 20), MkDate(2024, 2, 1),
           "unpaid", <<"B","1">>),
      Bill(3, <<"Z","e","d">>, "rent", 20000, MkDate(2023, 12, 5), NoDate, "unpaid", <<"B","2">>),
      MalformedRow }

Sheets == UNION { [1..n -> RowPool] : n \in 0..MaxRows }

\* str(e) of what the record source raises
StorageErrors == { <<"F","a","i","l","e","d"," ","t","o"," ","l","i","s","t"," ","b","i","l","l","s",":"," ","t","i","m","e","o","u","t">>, <<"F","a","i","l","e","d"," ","t","o"," ","l","i","s","t"," ","b","i","l","l","s",":"," ","q","u","o","t","a">> }

-----------------------------------------------------------------------------
(* Idle values: a component that takes no part in a specification *)

NoCall == [none |-> TRUE]

NoResponse == [raised |-> FALSE, none |-> TRUE]

NoOutcome == [raised |-> FALSE, result |-> NoResult]

NoExtraction == [none |-> TRUE]

NoStage ==
    [ schema_valid |-> FALSE, semantic_valid |-> FALSE, issues |-> <<>>,
      semantic_ran |-> FALSE, exists_calls |-> 0 ]

NormIdle == intent = NoIntent /\ npc = "idle" /\ nquery = NoQuery

ExecIdle ==
    /\ equery = NoQuery
    /\ epc = "idle"
    /\ ecall = NoCall
    /\ eresponse = NoResponse
    /\ eout = NoOutcome

FlowIdle ==
    /\ fconfigured = FALSE
    /\ faudit = FALSE
    /\ fpc = "idle"
    /\ fquery = NoQuery
    /\ fresult = NoResult
    /\ fcalls = [parse |-> 0, execute |-> 0]
    /\ fout = NoOutcome

ValIdle ==
    /\ extracted = NoExtraction
    /\ vstorage = FALSE
    /\ vpc = "idle"
    /\ vcall = NoCall
    /\ vresponse = NoResponse
    /\ vstage = NoStage
    /\ vout = NoOutcome

NoInput == [none |-> TRUE]

SecondIdle ==
    /\ sinput = NoInput
    /\ spc = "idle"
    /\ scall = NoCall
    /\ sresponse = NoResponse
    /\ sstage = NoStage
    /\ sout = NoOutcome

NoValidation == [none |-> TRUE]

NoBill == [none |-> TRUE]

NoAttempt == [outcome |-> "none"]

UpIdle ==
    /\ ustorage = FALSE
    /\ uaudit = FALSE
    /\ upload_state = "idle"
    /\ extracted_data = NoExtraction
    /\ validation = NoValidation
    /\ saved_bill = NoBill
    /\ upc = "ui"
    /\ ubill = NoBill
    /\ attempt = NoAttempt
    /\ uploads = 0
    /\ built = 0

-----------------------------------------------------------------------------
(* QueryAgent.intent_to_query *)

NormInit ==
    /\ today \in Todays
    /\ sheet = <<>>
    /\ audit_log = <<>>
    /\ intent \in NormIntents
    /\ npc = "ready"
    /\ nquery = NoQuery
    /\ ExecIdle /\ FlowIdle /\ ValIdle /\ SecondIdle /\ UpIdle

IntentToQueryStep ==
    /\ npc = "ready"
    /\ LET r == IntentToQuery(intent, Question, today)
       IN  /\ npc' = IF r.raised THEN "raised" ELSE "returned"
           /\ nquery' = r.query
    /\ UNCHANGED <<secondVars, upVars, intent, envVars, execVars, flowVars, valVars>>

NormNext == IntentToQueryStep

SpecNorm == NormInit /\ [][NormNext]_vars

-----------------------------------------------------------------------------
(* QueryExecutor.execute *)

StructuredQuery(query_type, category_filter, vendor_filter, dates, payment_status_filter, aggregation_type, group_by, limit) ==
    [ original_question     |-> Question,
      query_type            |-> query_type,
      category_filter       |-> category_filter,
      vendor_filter         |-> vendor_filter,
      date_from             |-> dates[1],
      date_to               |-> dates[2],
      payment_status_filter |-> payment_status_filter,
      aggregation_type      |-> aggregation_type,
      group_by              |-> group_by,
      limit                 |-> limit ]

QueryDateRanges == { <<NoDate, NoDate>>, <<MkDate(2024, 1, 1), MkDate(2024, 1, 31)>> }

QueryLimits == {1, DefaultLimit}

\* list-shaped queries vary every filter; aggregate-shaped ones every aggregation
ListShapedQueries ==
    { StructuredQuery(t, c, v, d, p, "None", "None", l) :
        t \in {"lookup", "list", "exists"}, c \in {"None", "gas"},
        v \in {NoneStr, <<"A","C","M","E">>}, d \in QueryDateRanges, p \in {"None", "unpaid"},
        l \in QueryLimits }

AggregateShapedQueries ==
    { StructuredQuery(t, c, NoneStr, d, "None", a, g, l) :
        t \in {"aggregate", "compare"}, c \in {"None", "gas"}, d \in QueryDateRanges,
        a \in AggregationTypes \cup {"None"}, g \in GroupBys \cup {"None"},
        l \in QueryLimits }

ExecQueries == ListShapedQueries \cup AggregateShapedQueries

MaxExecRows == 3

\* worksheets for the executor: room for three bills
ExecSheets == UNION { [1..n -> RowPool] : n \in 0..MaxExecRows }

ExecInit ==
    /\ today \in {MkDate(2024, 1, 15)}
    /\ sheet \in ExecSheets
    /\ audit_log = <<>>
    /\ equery \in ExecQueries
    /\ epc = "ready"
    /\ ecall = NoCall
    /\ eresponse = NoResponse
    /\ eout = NoOutcome
    /\ NormIdle /\ FlowIdle /\ ValIdle /\ SecondIdle /\ UpIdle

\* execute enters its handler, which awaits list_bills
ExecuteCall ==
    /\ epc = "ready"
    /\ ecall' = ListCall(equery)
    /\ epc' = "awaiting"
    /\ UNCHANGED <<secondVars, upVars, equery, eresponse, eout, envVars, normVars, flowVars, valVars>>

\* the record source answers; the handler builds the QueryResult
ListBillsReturn ==
    /\ epc = "awaiting"
    /\ LET bills == ListBills(sheet, ecall.category, ecall.vendor, ecall.date_from,
                              ecall.date_to, ecall.payment_status, ecall.limit,
                              ecall.offset)
       IN  eresponse' = [raised |-> FALSE, bills |-> bills]
    /\ eout' = ExecuteOutcome(equery, eresponse')
    /\ epc' = "done"
    /\ UNCHANGED <<secondVars, upVars, equery, ecall, envVars, normVars, flowVars, valVars>>

\* the record source raises
ListBillsRaise ==
    /\ epc = "awaiting"
    /\ \E e \in StorageErrors : eresponse' = [raised |-> TRUE, error |-> e]
    /\ eout' = ExecuteOutcome(equery, eresponse')
    /\ epc' = "done"
    /\ UNCHANGED <<secondVars, upVars, equery, ecall, envVars, normVars, flowVars, valVars>>

ExecNext == ExecuteCall \/ ListBillsReturn \/ ListBillsRaise

SpecExec == ExecInit /\ [][ExecNext]_vars

-----------------------------------------------------------------------------
(* QueryFlow.answer_question *)

\* what parse_question may return: a parsed intent, or its fallback (list, no hints)
FlowIntents ==
    { [ query_type |-> t, category |-> c, vendor |-> NoneStr,
        time_reference |-> NoneStr, payment_status |-> p, aggregation |-> NoneStr,
        group_by |-> NoneStr ] :
        t \in {"list", "aggregate", "exists", "summarize"},
        c \in {NoneStr, <<"G","a","s">>}, p \in {NoneStr, <<"n","o","t"," ","p","a","i","d">>} }

FlowInit ==
    /\ today \in {MkDate(2024, 1, 15)}
    /\ fconfigured \in BOOLEAN
    /\ sheet \in (IF fconfigured THEN Sheets ELSE {<<>>})
    /\ audit_log = <<>>
    /\ faudit \in BOOLEAN
    /\ fpc = "ready"
    /\ fquery = NoQuery
    /\ fresult = NoResult
    /\ fcalls = [parse |-> 0, execute |-> 0]
    /\ fout = NoOutcome
    /\ NormIdle /\ ExecIdle /\ ValIdle /\ SecondIdle /\ UpIdle

\* `if not self._query_executor`: the "cannot answer yet" triple
AnswerNotConfigured ==
    /\ fpc = "ready"
    /\ ~fconfigured
    /\ fout' = NotConfiguredAnswer
    /\ fpc' = "done"
    /\ UNCHANGED <<secondVars, upVars, fconfigured, faudit, fquery, fresult, fcalls,
                   envVars, normVars, execVars, valVars>>

\* parse_question returns `in`; intent_to_query runs; execute is entered and
\* awaits list_bills
ParseQuestion ==
    /\ fpc = "ready"
    /\ fconfigured
    /\ \E in \in FlowIntents :
         LET r == IntentToQuery(in, Question, today)
         IN  IF r.raised
             THEN /\ fout' = FlowRaised
                  /\ fpc' = "done"
                  /\ fcalls' = [fcalls EXCEPT !.parse = @ + 1]
                  /\ UNCHANGED fquery
             ELSE /\ fquery' = r.query
                  /\ fpc' = "executing"
                  /\ fcalls' = [parse |-> fcalls.parse + 1, execute |-> fcalls.execute + 1]
                  /\ UNCHANGED fout
    /\ UNCHANGED <<secondVars, upVars, fconfigured, faudit, fresult, envVars, normVars, execVars, valVars>>

\* execute has its QueryResult (or lets an exception out)
FlowExecuted(outcome) ==
    /\ IF outcome.raised
       THEN /\ fout' = FlowRaised
            /\ fpc' = "done"
            /\ UNCHANGED fresult
       ELSE /\ fresult' = outcome.result
            /\ fpc' = IF faudit THEN "auditing" ELSE "responding"
            /\ UNCHANGED fout
    /\ UNCHANGED <<secondVars, upVars, fconfigured, faudit, fquery, fcalls, envVars, normVars, execVars, valVars>>

FlowListBillsReturn ==
    /\ fpc = "executing"
    /\ LET call == ListCall(fquery)
           bills == ListBills(sheet, call.category, call.vendor, call.date_from,
                              call.date_to, call.payment_status, call.limit, call.offset)
       IN  FlowExecuted(ExecuteOutcome(fquery, [raised |-> FALSE, bills |-> bills]))

FlowListBillsRaise ==
    /\ fpc = "executing"
    /\ \E e \in StorageErrors :
         FlowExecuted(ExecuteOutcome(fquery, [raised |-> TRUE, error |-> e]))

\* log_query_executed (AuditLogger.log swallows a failing audit store)
LogQueryExecuted ==
    /\ fpc = "auditing"
    /\ audit_log' = Append(audit_log, QueryExecutedEvent(fquery, fresult))
    /\ fpc' = "responding"
    /\ UNCHANGED <<secondVars, upVars, today, sheet, fconfigured, faudit, fquery, fresult, fcalls, fout,
                   normVars, execVars, valVars>>

\* generate_response, and the return of the triple
Respond ==
    /\ fpc = "responding"
    /\ \E llm_ok \in BOOLEAN :
         LET r == GenerateResponse(fquery, fresult, llm_ok)
         IN  fout' = IF r.raised THEN FlowRaised
                     ELSE [raised |-> FALSE, answer |-> r.response,
                           result |-> fresult, query |-> fquery]
    /\ fpc' = "done"
    /\ UNCHANGED <<secondVars, upVars, fconfigured, faudit, fquery, fresult, fcalls,
                   envVars, normVars, execVars, valVars>>

FlowNext ==
    \/ AnswerNotConfigured
    \/ ParseQuestion
    \/ FlowListBillsReturn
    \/ FlowListBillsRaise
    \/ LogQueryExecuted
    \/ Respond

SpecFlow == FlowInit /\ [][FlowNext]_vars

-----------------------------------------------------------------------------
(* BillValidator.validate *)

ExtractedBillData(total_amount, vendor, bill_number, bill_date, rest, confidence_score) ==
    [ total_amount         |-> total_amount,
      subtotal             |-> rest.subtotal,
      tax_amount           |-> rest.tax_amount,
      vendor               |-> vendor,
      bill_number          |-> bill_number,
      bill_date            |-> bill_date,
      due_date             |-> rest.due_date,
      billing_period_start |-> rest.billing_period_start,
      billing_period_end   |-> rest.billing_period_end,
      confidence_score     |-> confidence_score ]

\* the optional fields: nothing extracted, amounts and dates that agree with a
\* total of 100.00, amounts and dates that do not, a subtotal with a tax of 0
RestOfExtraction ==
    { [ subtotal |-> NoAmount, tax_amount |-> NoAmount, due_date |-> NoDate,
        billing_period_start |-> NoDate, billing_period_end |-> NoDate ],
      [ subtotal |-> 5000, tax_amount |-> 0, due_date |-> NoDate,
        billing_period_start |-> NoDate, billing_period_end |-> NoDate ],
      [ subtotal |-> 9000, tax_amount |-> 1000, due_date |-> MkDate(2024, 4, 1),
        billing_period_start |-> MkDate(2023, 12, 1),
        billing_period_end |-> MkDate(2023, 12, 31) ],
      [ subtotal |-> 5000, tax_amount |-> 500, due_date |-> MkDate(2021, 1, 1),
        billing_period_start |-> MkDate(2023, 12, 31),
        billing_period_end |-> MkDate(2023, 12, 1) ] }

Extractions ==
    { ExtractedBillData(a, v, n, d, r, c) :
        a \in {NoAmount, 0, 50, 10000, 200000000},
        v \in {NoneStr, <<"A","c","m","e">>, <<"4","u","2","!">>},
        n \in {NoneStr, <<"B","1">>, <<"B","9">>},
        d \in {NoDate, MkDate(2024, 1, 10), MkDate(2024, 1, 20), MkDate(2021, 12, 31),
               MkDate(2024, 3, 1)},
        r \in RestOfExtraction,
        c \in {40, 90} }

ValInit ==
    /\ today = MkDate(2024, 1, 15)
    /\ vstorage \in BOOLEAN
    /\ sheet \in (IF vstorage THEN Sheets ELSE {<<>>})
    /\ audit_log = <<>>
    /\ extracted \in Extractions
    /\ vpc = "ready"
    /\ vcall = NoCall
    /\ vresponse = NoResponse
    /\ vstage = NoStage
    /\ vout = NoOutcome
    /\ NormIdle /\ ExecIdle /\ FlowIdle /\ SecondIdle /\ UpIdle

\* the tail of validate: warnings, is_valid, can_proceed, the ValidationResult
ValidateReturn(stage, duplicates) ==
    IF duplicates.raised
    THEN [raised |-> TRUE, result |-> NoResult]
    ELSE [raised |-> FALSE,
          result |-> ValidationResult(extracted, stage.schema_valid, stage.semantic_valid,
                                      stage.issues \o duplicates.issues)]

NoDuplicates == [raised |-> FALSE, issues |-> <<>>]

\* validate up to its only suspension point, the awaited bill_exists; it runs to
\* its return when that call is not made
ValidateStart ==
    /\ vpc = "ready"
    /\ LET schema == ValidateSchema(extracted)
           semantic == ValidateSemantic(extracted, today)
           stage2 == Stage2Runs(schema.valid)
           asks == stage2 /\ ChecksDuplicates(vstorage, extracted)
           stage == [ schema_valid   |-> schema.valid,
                      semantic_valid |-> IF stage2 THEN semantic.valid ELSE FALSE,
                      issues         |-> IF stage2 THEN schema.issues \o semantic.issues
                                         ELSE schema.issues,
                      semantic_ran   |-> stage2,
                      exists_calls   |-> IF asks THEN 1 ELSE 0 ]
       IN  /\ vstage' = stage
           /\ IF asks
              THEN /\ vcall' = [ vendor      |-> extracted.vendor,
                                 bill_number |-> extracted.bill_number,
                                 bill_date   |-> extracted.bill_date ]
                   /\ vpc' = "awaiting"
                   /\ UNCHANGED vout
              ELSE /\ vout' = ValidateReturn(stage, NoDuplicates)
                   /\ vpc' = "done"
                   /\ UNCHANGED vcall
    /\ UNCHANGED <<secondVars, upVars, extracted, vstorage, vresponse, envVars, normVars, execVars, flowVars>>

\* bill_exists answers
BillExistsReturn ==
    /\ vpc = "awaiting"
    /\ vresponse' = [ raised       |-> FALSE,
                      is_duplicate |-> BillExists(sheet, vcall.vendor, vcall.bill_number,
                                                  vcall.bill_date) ]
    /\ vout' = ValidateReturn(vstage, CheckDuplicatesOutcome(vresponse'))
    /\ vpc' = "done"
    /\ UNCHANGED <<secondVars, upVars, extracted, vstorage, vcall, vstage, envVars, normVars, execVars, flowVars>>

\* bill_exists raises (its list_bills wraps every failure in a StorageError)
BillExistsRaise ==
    /\ vpc = "awaiting"
    /\ vresponse' = [raised |-> TRUE, is_duplicate |-> FALSE]
    /\ vout' = ValidateReturn(vstage, CheckDuplicatesOutcome(vresponse'))
    /\ vpc' = "done"
    /\ UNCHANGED <<secondVars, upVars, extracted, vstorage, vcall, vstage, envVars, normVars, execVars, flowVars>>

ValNext == ValidateStart \/ BillExistsReturn \/ BillExistsRaise

SpecVal == ValInit /\ [][ValNext]_vars

-----------------------------------------------------------------------------
(* Properties of QueryAgent.intent_to_query *)

(* C1 -- intent_to_query maps every payment-status hint that contains
   "unpaid" or "not paid" (in any letter case) to UNPAID, never to PAID. *)
C1_UnpaidHintsYieldUnpaid ==
    ( /\ npc = "returned"
      /\ Truthy(intent.payment_status)
      /\ \/ Contains(Lower(intent.payment_status), <<"u","n","p","a","i","d">>)
         \/ Contains(Lower(intent.payment_status), <<"n","o","t"," ","p","a","i","d">>) )
    => nquery.payment_status_filter = "unpaid"

(* C2 -- intent_to_query is total: for every QueryIntent it returns a
   StructuredQuery without raising, and every field it fills from a hint is a
   member of its enumeration or unset. *)
C2_IntentToQueryTotal ==
    /\ npc # "raised"
    /\ npc = "returned" =>
         /\ nquery.category_filter \in BillCategories \cup {"None"}
         /\ nquery.payment_status_filter \in PaymentStatuses \cup {"None"}
         /\ nquery.aggregation_type \in AggregationTypes \cup {"None"}
         /\ nquery.group_by \in GroupBys \cup {"None"}

-----------------------------------------------------------------------------
(* Properties of QueryExecutor.execute *)

(* C3 -- execute never lets an exception out: when the record source raises,
   it returns a QueryResult with success false, data_found false, result_count
   0, no results and the error text inside query_description; when nothing
   raises, the QueryResult has success true. *)
C3_ExecuteNeverPropagates ==
    epc = "done" =>
      /\ ~eout.raised
      /\ IF eresponse.raised
         THEN /\ ~eout.result.success
              /\ ~eout.result.data_found
              /\ eout.result.result_count = 0
              /\ eout.result.results = <<>>
              /\ Contains(eout.result.query_description, eresponse.error)
         ELSE eout.result.success

\* the record source raised under an aggregate query and execute has returned
C3_Witness ==
    /\ epc = "done"
    /\ eresponse.raised
    /\ equery.query_type = "aggregate"
    /\ ~eout.raised
    /\ ~eout.result.success

-----------------------------------------------------------------------------
(* Properties of QueryFlow.answer_question *)

(* C4 -- answer_question never raises and always returns an answer: without a
   record source it returns the "cannot answer yet" result (success false,
   data_found false, result_count 0) and calls neither the parser nor the
   executor; with a record source it returns an (answer, result, query) triple,
   both when no data is found and when execution failed. *)
C4_AnswerQuestionAlwaysAnswers ==
    fpc = "done" =>
      /\ ~fout.raised
      /\ Len(fout.answer) > 0
      /\ IF fconfigured
         THEN fout.result = fresult /\ fout.query = fquery
         ELSE /\ fcalls = [parse |-> 0, execute |-> 0]
              /\ ~fout.result.success
              /\ ~fout.result.data_found
              /\ fout.result.result_count = 0

-----------------------------------------------------------------------------
(* Properties of BillValidator.validate *)

\* the ValidationResult validate has returned
Returned == vpc = "done" /\ ~vout.raised

IssuesWhere(issues, Test(_)) == {i \in 1..Len(issues) : Test(issues[i])}

IsError(issue) == issue.severity = "error"

IsEmptyIssue(issue) == issue.issue_type = "empty" /\ issue.field = "extraction"

IsMissingAmount(issue) ==
    issue.issue_type = "missing" /\ issue.field = "total_amount" /\ IsError(issue)

IsInvalidAmount(issue) ==
    issue.issue_type = "invalid_value" /\ issue.field = "total_amount" /\ IsError(issue)

IsDuplicateWarning(issue) ==
    issue.issue_type = "potential_duplicate" /\ issue.severity = "warning"

NothingExtracted ==
    /\ extracted.total_amount = NoAmount
    /\ extracted.vendor = NoneStr
    /\ extracted.bill_date = NoDate

(* C5 -- schema validation of an extraction whose total amount, vendor and bill
   date are all absent produces exactly two error-severity issues: `missing` on
   total_amount and one `empty` issue on the extraction; an extraction with
   total amount 0 produces an error `invalid_value` on total_amount. *)
C5_SchemaErrorsOfEmptyAndZero ==
    Returned =>
      LET issues == vout.result.issues
      IN  /\ NothingExtracted =>
                /\ Cardinality(IssuesWhere(issues, IsError)) = 2
                /\ Cardinality(IssuesWhere(issues, IsEmptyIssue)) = 1
                /\ Cardinality(IssuesWhere(issues, IsMissingAmount)) = 1
                /\ IssuesWhere(issues, IsEmptyIssue) \subseteq IssuesWhere(issues, IsError)
          /\ extracted.total_amount = 0 =>
                /\ Cardinality(IssuesWhere(issues, IsInvalidAmount)) = 1
                /\ IssuesWhere(issues, IsError) = IssuesWhere(issues, IsInvalidAmount)

\* the statement as the specification words it: a single error, `empty`
C5_SingleEmptyError ==
    Returned =>
      LET issues == vout.result.issues
      IN  /\ NothingExtracted =>
                /\ Cardinality(IssuesWhere(issues, IsError)) = 1
                /\ IssuesWhere(issues, IsError) = IssuesWhere(issues, IsEmptyIssue)
          /\ extracted.total_amount = 0 =>
                IssuesWhere(issues, IsInvalidAmount) # {}

\* validate has returned for an extraction with amount 0 and a vendor
C5_Witness ==
    /\ Returned
    /\ extracted.total_amount = 0
    /\ extracted.vendor # NoneStr
    /\ ~vout.result.schema_valid

\* validate has returned for an extraction with nothing in it
C5_WitnessNothingExtracted ==
    /\ Returned
    /\ NothingExtracted
    /\ ~vout.result.schema_valid

(* C6 -- stage 2 runs only if stage 1 passes: whenever schema validation found
   an error, no semantic check ran, bill_exists was not called, the issues are
   the stage-1 issues alone and semantic_valid is false. *)
C6_Stage2OnlyAfterStage1 ==
    /\ vpc = "awaiting" => vstage.schema_valid
    /\ (vpc = "done" /\ HasError(ValidateSchema(extracted).issues)) =>
         /\ ~vstage.semantic_ran
         /\ vstage.exists_calls = 0
         /\ vresponse = NoResponse
         /\ ~vout.raised
         /\ vout.result.issues = ValidateSchema(extracted).issues
         /\ ~vout.result.semantic_valid

\* stage 1 failed on an extraction that stage 2 would have had findings for,
\* with a record source at hand and a vendor and date to ask it about
C6_Witness ==
    /\ Returned
    /\ ~vout.result.schema_valid
    /\ vstorage
    /\ extracted.vendor # NoneStr
    /\ extracted.bill_date = MkDate(2021, 12, 31)
    /\ Len(sheet) > 0

(* C7 -- can_proceed_with_review is true exactly when the total amount is
   present and no error-severity issue exists on a field other than vendor;
   so it is true exactly when the amount is present and above zero, whether or
   not the vendor is missing. *)
C7_CanProceedIffAmountUsable ==
    Returned =>
      /\ vout.result.can_proceed_with_review
           = ( /\ extracted.total_amount # NoAmount
               /\ \A i \in 1..Len(vout.result.issues) :
                     ~(IsError(vout.result.issues[i])
                         /\ vout.result.issues[i].field # "vendor") )
      /\ vout.result.can_proceed_with_review
           = (extracted.total_amount # NoAmount /\ extracted.total_amount > 0)

\* review may proceed although the vendor is missing
C7_Witness ==
    /\ Returned
    /\ extracted.vendor = NoneStr
    /\ extracted.total_amount = 10000
    /\ vout.result.can_proceed_with_review

\* review is blocked by an amount of 0
C7_WitnessBlocked ==
    /\ Returned
    /\ extracted.total_amount = 0
    /\ ~vout.result.can_proceed_with_review

\* the issues that follow the stage-1 issues in the returned list
Stage2Issues ==
    SubSeq(vout.result.issues, Len(ValidateSchema(extracted).issues) + 1,
           Len(vout.result.issues))

(* C8 -- every issue of semantic validation and of duplicate detection is a
   warning, so an extraction that passes schema validation has semantic_valid
   true; and is_valid = (schema_valid and semantic_valid) = schema_valid. *)
C8_Stage2OnlyWarns ==
    Returned =>
      /\ \A i \in 1..Len(Stage2Issues) : Stage2Issues[i].severity = "warning"
      /\ vout.result.schema_valid => vout.result.semantic_valid
      /\ vout.result.is_valid = (vout.result.schema_valid /\ vout.result.semantic_valid)
      /\ vout.result.is_valid = vout.result.schema_valid

\* an extraction that passed stage 1 and drew a suspicious-value and an
\* inconsistency warning from stage 2
C8_Witness ==
    /\ Returned
    /\ vout.result.schema_valid
    /\ vout.result.is_valid
    /\ \E i \in 1..Len(Stage2Issues) : Stage2Issues[i].issue_type = "suspicious_value"
    /\ \E i \in 1..Len(Stage2Issues) : Stage2Issues[i].issue_type = "inconsistent"

HasDuplicateWarning == IssuesWhere(vout.result.issues, IsDuplicateWarning) # {}

\* a parsable stored row of that day with that bill number whose vendor name
\* contains the extracted vendor name, letter case aside
StoredMatch(row) ==
    /\ row.ok
    /\ Contains(Lower(row.vendor_name), Lower(extracted.vendor))
    /\ row.bill_date = extracted.bill_date
    /\ row.bill_number = extracted.bill_number

\* a parsable stored row of the same vendor (letter case aside), day and number
StoredSame(row) ==
    /\ row.ok
    /\ Lower(row.vendor_name) = Lower(extracted.vendor)
    /\ row.bill_date = extracted.bill_date
    /\ row.bill_number = extracted.bill_number

(* C9 -- validate adds a `potential_duplicate` warning exactly when stage 1
   passed, a record source is configured and answered without raising, the
   extraction carries a vendor, a bill date and a bill number, and a stored
   bill of that date whose vendor name contains the extracted vendor name
   (case-insensitively) has exactly that bill number; a different or absent
   bill number never produces the warning.  (Worksheets of at most
   BillExistsLimit rows.) *)
C9_DuplicateWarningIffNumberMatches ==
    (Returned /\ Len(sheet) <= BillExistsLimit) =>
      /\ HasDuplicateWarning
           = ( /\ vout.result.schema_valid
               /\ vstorage
               /\ vresponse # NoResponse
               /\ ~vresponse.raised
               /\ Truthy(extracted.vendor)
               /\ extracted.bill_date # NoDate
               /\ Truthy(extracted.bill_number)
               /\ \E i \in 1..Len(sheet) : StoredMatch(sheet[i]) )
      /\ Cardinality(IssuesWhere(vout.result.issues, IsDuplicateWarning)) <= 1

\* the statement as the specification words it, read for the validations in
\* which bill_exists was asked and answered: the warning only for a stored bill
\* of the same vendor, date and number, and always for such a bill
C9_DuplicateWarningIffSameBill ==
    (Returned /\ vresponse # NoResponse /\ ~vresponse.raised) =>
      /\ HasDuplicateWarning =>
           /\ Truthy(extracted.bill_number)
           /\ \E i \in 1..Len(sheet) : StoredSame(sheet[i])
      /\ (\E i \in 1..Len(sheet) : StoredSame(sheet[i])) => HasDuplicateWarning

\* the warning was given for a stored bill of that day and number whose vendor
\* name only contains the extracted one
C9_Witness ==
    /\ Returned
    /\ HasDuplicateWarning
    /\ \A i \in 1..Len(sheet) : ~StoredSame(sheet[i])

\* the warning was given for a stored bill of the same vendor, day and number
C9_WitnessSameBill ==
    /\ Returned
    /\ HasDuplicateWarning
    /\ \E i \in 1..Len(sheet) : StoredSame(sheet[i])

\* no warning although a stored bill of the vendor and day exists: its number differs
C9_WitnessOtherNumber ==
    /\ Returned
    /\ vresponse # NoResponse
    /\ ~vresponse.raised
    /\ ~HasDuplicateWarning
    /\ extracted.bill_number = <<"B","9">>
    /\ \E i \in 1..Len(sheet) :
          /\ sheet[i].ok
          /\ Lower(sheet[i].vendor_name) = Lower(extracted.vendor)
          /\ sheet[i].bill_date = extracted.bill_date

(* C10 -- if bill_exists raises during validate, validate does not raise and
   returns exactly the ValidationResult it returns when bill_exists answers
   "no duplicate": the one built from the stage-1 and stage-2 issues alone. *)
C10_DuplicateCheckFailureSwallowed ==
    (vpc = "done" /\ vresponse.raised) =>
      /\ ~vout.raised
      /\ vout.result
           = ValidationResult(extracted, ValidateSchema(extracted).valid,
                              ValidateSemantic(extracted, today).valid,
                              ValidateSchema(extracted).issues
                                \o ValidateSemantic(extracted, today).issues)
      /\ ~HasDuplicateWarning

\* bill_exists raised while the worksheet held a bill with the extracted number
C10_Witness ==
    /\ vpc = "done"
    /\ vresponse.raised
    /\ ~vout.raised
    /\ \E i \in 1..Len(sheet) : StoredMatch(sheet[i])
    /\ Len(vout.result.warnings) > 0


IsInconsistentTotal(issue) ==
    /\ issue.issue_type = "inconsistent"
    /\ issue.field = "total_amount"
    /\ issue.severity = "warning"

\* |total - (subtotal + tax)| exceeds 5% of subtotal + tax and exceeds 10.00
ExceedsBothTolerances ==
    LET expected_total == extracted.subtotal + extracted.tax_amount
        difference == IF extracted.total_amount >= expected_total
                      THEN extracted.total_amount - expected_total
                      ELSE expected_total - extracted.total_amount
    IN  /\ difference > (expected_total * 5) \div 100
        /\ difference > 1000

(* C11 -- for every extraction that passes schema validation and has subtotal,
   tax and total all present (a present value may be 0), the `inconsistent`
   warning on total_amount is added exactly when |total - (subtotal + tax)| is
   greater than 5% of (subtotal + tax) and also greater than 10 currency
   units. *)
C11_InconsistentIffBothExceeded ==
    ( /\ Returned
      /\ vout.result.schema_valid
      /\ extracted.subtotal # NoAmount
      /\ extracted.tax_amount # NoAmount
      /\ extracted.total_amount # NoAmount )
    => ( (IssuesWhere(vout.result.issues, IsInconsistentTotal) # {})
           = ExceedsBothTolerances )

-----------------------------------------------------------------------------
(* QueryAgent._resolve_time_reference, as intent_to_query calls it *)

TimeYears == {2023, 2024}

\* date.today(): the first, the 15th and the last day of every month of a common
\* and of a leap year
TimeTodays ==
    { dt \in TimeYears \X (1..12) \X (1..31) :
        IsDate(dt) /\ Day(dt) \in {1, 15, DaysInMonth(Year(dt), Month(dt))} }

TimePhrases ==
    { NoneStr, <<>>,
      <<"t","h","i","s"," ","m","o","n","t","h">>, <<"C","u","r","r","e","n","t"," ","M","o","n","t","h">>, <<" ","l","a","s","t"," ","m","o","n","t","h"," ">>, <<"P","r","e","v","i","o","u","s"," ","M","o","n","t","h">>,
      <<"t","h","i","s"," ","y","e","a","r">>, <<"c","u","r","r","e","n","t"," ","y","e","a","r">>, <<"L","a","s","t"," ","Y","e","a","r">>, <<"p","r","e","v","i","o","u","s"," ","y","e","a","r">>,
      <<"J","a","n","u","a","r","y">>, <<"f","e","b","r","u","a","r","y">>, <<"i","n"," ","M","a","r","c","h">>, <<"a","p","r","i","l">>, <<"m","a","y","b","e">>, <<"J","u","n","e"," ","2","0","2","3">>, <<"j","u","l","y">>,
      <<"A","u","g","u","s","t">>, <<"s","e","p","t","e","m","b","e","r">>, <<"o","c","t","o","b","e","r">>, <<"n","o","v","e","m","b","e","r">>, <<"D","e","c","e","m","b","e","r"," ","2","0","2","3">>,
      <<"m","a","y"," ","a","n","d"," ","j","a","n","u","a","r","y">>, <<"l","a","s","t"," ","m","o","n","t","h","'","s">>, <<"2","0","2","3">>, <<"f","y"," ","2","0","1","9","-","2","0">>, <<"s","o","m","e","d","a","y">> }

\* the intent handed to intent_to_query carries the phrase and nothing else
TimeIntents ==
    { [ query_type |-> "list", category |-> NoneStr, vendor |-> NoneStr,
        time_reference |-> t, payment_status |-> NoneStr, aggregation |-> NoneStr,
        group_by |-> NoneStr ] : t \in TimePhrases }

TimeInit ==
    /\ today \in TimeTodays
    /\ sheet = <<>>
    /\ audit_log = <<>>
    /\ intent \in TimeIntents
    /\ npc = "ready"
    /\ nquery = NoQuery
    /\ ExecIdle /\ FlowIdle /\ ValIdle /\ SecondIdle /\ UpIdle

SpecTime == TimeInit /\ [][NormNext]_vars

\* the phrase as the rules see it
Phrase == Strip(Lower(intent.time_reference))

PhraseAbsent == ~Truthy(intent.time_reference)

FixedPhrases ==
    ThisMonthPhrases \cup LastMonthPhrases \cup ThisYearPhrases \cup LastYearPhrases

\* the phrase reaches the month-name rule and names month m before any other
ResolvedByMonthName(m) ==
    /\ ~PhraseAbsent
    /\ Phrase \notin FixedPhrases
    /\ Contains(Phrase, MonthNames[m])
    /\ \A k \in 1..(m - 1) : ~Contains(Phrase, MonthNames[k])

\* the first through the last calendar day of month m of year y
FullMonth(y, m) == << <<y, m, 1>>, <<y, m, DaysInMonth(y, m)>> >>

Resolved == <<nquery.date_from, nquery.date_to>>

(* C12 -- for every today and every phrase resolved by the month-name rule, the
   range is the full named month of the previous year when the month's number
   is greater than today's month number, and the full named month of the
   current year otherwise. *)
C12_MonthNameYear ==
    npc = "returned" =>
      \A m \in 1..12 :
         ResolvedByMonthName(m) =>
            Resolved = IF m > Month(today) THEN FullMonth(Year(today) - 1, m)
                       ELSE FullMonth(Year(today), m)

\* "December 2023" asked in March: December of the year before today's
C12_Witness ==
    /\ npc = "returned"
    /\ ResolvedByMonthName(12)
    /\ Month(today) = 3
    /\ Resolved = << <<Year(today) - 1, 12, 1>>, <<Year(today) - 1, 12, 31>> >>


\* some rule of the resolver matches the phrase
SomeRuleMatches ==
    /\ ~PhraseAbsent
    /\ \/ Phrase \in FixedPhrases
       \/ \E m \in 1..12 : Contains(Phrase, MonthNames[m])
       \/ \E i \in 1..(Len(Phrase) - 3) :
             /\ Phrase[i] = "2" /\ Phrase[i + 1] = "0"
             /\ Phrase[i + 2] \in {"0","1","2","3","4","5","6","7","8","9"}
             /\ Phrase[i + 3] \in {"0","1","2","3","4","5","6","7","8","9"}

(* C13 -- for every today and every time phrase the resolver does not raise
   (every date it builds is a calendar date) and returns either (absent,
   absent), which it does when the phrase is absent or no rule matches, or a
   pair with both bounds present and start <= end. *)
C13_ResolverTotalAndOrdered ==
    /\ npc # "raised"
    /\ npc = "returned" =>
         /\ ~SomeRuleMatches => Resolved = <<NoDate, NoDate>>
         /\ \/ Resolved = <<NoDate, NoDate>>
            \/ /\ IsDate(Resolved[1])
               /\ IsDate(Resolved[2])
               /\ Ordinal(Resolved[1]) <= Ordinal(Resolved[2])

\* "fy 2019-20" resolved by the year rule to the whole of 2019
C13_Witness ==
    /\ npc = "returned"
    /\ intent.time_reference = <<"f","y"," ","2","0","1","9","-","2","0">>
    /\ Resolved = << <<2019, 1, 1>>, <<2019, 12, 31>> >>

\* a phrase no rule matches
C13_WitnessNoMatch ==
    /\ npc = "returned"
    /\ intent.time_reference = <<"l","a","s","t"," ","m","o","n","t","h","'","s">>
    /\ Resolved = <<NoDate, NoDate>>

\* the month before today's: <<year, month>>
PrecedingMonth ==
    IF Month(today) = 1 THEN <<Year(today) - 1, 12>>
    ELSE <<Year(today), Month(today) - 1>>

(* C14 -- for every today, "this month"/"current month" resolves to the first
   through the last calendar day of today's month (December included), and
   "last month"/"previous month" to the first through the last calendar day of
   the preceding month (December of the previous year when today is in
   January). *)
C14_ThisAndLastMonth ==
    (npc = "returned" /\ ~PhraseAbsent) =>
      /\ Phrase \in ThisMonthPhrases =>
           Resolved = FullMonth(Year(today), Month(today))
      /\ Phrase \in LastMonthPhrases =>
           Resolved = FullMonth(PrecedingMonth[1], PrecedingMonth[2])

\* "last month" asked in January: December of the year before
C14_Witness ==
    /\ npc = "returned"
    /\ ~PhraseAbsent
    /\ Phrase \in LastMonthPhrases
    /\ Month(today) = 1
    /\ Resolved = << <<Year(today) - 1, 12, 1>>, <<Year(today) - 1, 12, 31>> >>

\* "this month" asked in December
C14_WitnessDecember ==
    /\ npc = "returned"
    /\ ~PhraseAbsent
    /\ Phrase \in ThisMonthPhrases
    /\ Month(today) = 12
    /\ Resolved = << <<Year(today), 12, 1>>, <<Year(today), 12, 31>> >>


\* ---- QueryExecutor.execute: the results of each query type ----

\* execute has returned after the record source answered without raising
Executed == epc = "done" /\ ~eresponse.raised

\* the rows of the worksheet that are bills matching the query's filters
Matching ==
    { i \in 1..Len(sheet) :
        sheet[i].ok /\ BillMatches(sheet[i], equery.category_filter, equery.vendor_filter,
                                   equery.date_from, equery.date_to,
                                   equery.payment_status_filter) }

\* the records the record source handed back
Fetched == eresponse.bills

(* C15: a lookup or list query returns at most query.limit records:
   result_count <= limit and the results list has at most limit entries,
   however many matching records the worksheet holds. *)
C15_ListCappedAtLimit ==
    (Executed /\ equery.query_type \in {"lookup", "list"}) =>
      /\ eout.result.result_count <= equery.limit
      /\ Len(eout.result.results) <= equery.limit

\* a list query with limit 1 over a worksheet holding three matching bills
C15_Witness ==
    /\ Executed
    /\ equery.query_type = "list"
    /\ equery.limit = 1
    /\ Cardinality(Matching) = 3
    /\ eout.result.result_count = 1
    /\ Len(eout.result.results) = 1

(* C16: an aggregate or compare query whose filters match no record returns
   success with data_found false, result_count 0 and no aggregation_result;
   with at least one match it returns data_found true, an aggregation_result,
   and result_count equal to the number of records fetched. *)
C16_AggregateEmptyOrFound ==
    (Executed /\ equery.query_type \in {"aggregate", "compare"}) =>
      /\ eout.result.success
      /\ IF Matching = {}
         THEN /\ ~eout.result.data_found
              /\ eout.result.result_count = 0
              /\ eout.result.aggregation_result = NoAggregation
         ELSE /\ eout.result.data_found
              /\ eout.result.aggregation_result # NoAggregation
              /\ eout.result.result_count = Len(Fetched)
              /\ Len(Fetched) = Cardinality(Matching)

\* a compare query over two matching bills
C16_Witness ==
    /\ Executed
    /\ equery.query_type = "compare"
    /\ Cardinality(Matching) = 2
    /\ eout.result.data_found
    /\ eout.result.result_count = 2

\* an aggregate query over a non-empty worksheet none of whose bills match
C16_WitnessNoMatch ==
    /\ Executed
    /\ equery.query_type = "aggregate"
    /\ Len(sheet) > 0
    /\ Matching = {}
    /\ ~eout.result.data_found
    /\ eout.result.aggregation_result = NoAggregation

\* the amounts of the fetched records at the positions in S, added up
RECURSIVE IndexTotal(_, _)
IndexTotal(bills, S) ==
    IF S = {} THEN 0
    ELSE LET i == CHOOSE j \in S : TRUE
         IN  bills[i].total_amount + IndexTotal(bills, S \ {i})

\* an aggregate or compare query that fetched at least one record
Aggregated ==
    /\ Executed
    /\ equery.query_type \in {"aggregate", "compare"}
    /\ Len(Fetched) > 0

\* what the requested function yields on the records at the positions in S:
\* a record of the fields the function reports
Requested(agg, bills, S) ==
    LET amounts == {bills[i].total_amount : i \in S}
    IN  IF agg \in {"sum", "None"}
        THEN [value |-> IndexTotal(bills, S), count |-> Cardinality(S)]
        ELSE IF agg = "count" THEN [value |-> Cardinality(S)]
        ELSE IF agg = "average" THEN [value |-> IndexTotal(bills, S), count |-> Cardinality(S)]
        ELSE IF agg = "min" THEN [value |-> CHOOSE a \in amounts : \A b \in amounts : a <= b]
        ELSE [value |-> CHOOSE a \in amounts : \A b \in amounts : a >= b]

\* the aggregation_result without its breakdown
Overall ==
    LET r == eout.result.aggregation_result
    IN  [f \in (DOMAIN r) \ {"breakdown"} |-> r[f]]

(* C17: the aggregation_result of an aggregate or compare query over the
   amounts of the fetched records holds the requested function: sum and count
   for sum or an unset aggregation, count for count, sum divided by count for
   average, the smallest amount for min, the largest for max. *)
C17_AggregationIsRequestedFunction ==
    Aggregated =>
      LET agg  == equery.aggregation_type
          want == Requested(agg, Fetched, 1..Len(Fetched))
      IN  IF agg \in {"sum", "None"}
          THEN Overall = [total_amount |-> want.value, bill_count |-> want.count]
          ELSE IF agg = "count"
          THEN Overall = [count |-> want.value]
          ELSE IF agg = "average"
          THEN /\ DOMAIN Overall = {"average_amount", "bill_count"}
               /\ Overall.average_amount.den # 0
               /\ Overall.average_amount.num * want.count
                    = want.value * Overall.average_amount.den
               /\ Overall.bill_count = want.count
          ELSE IF agg = "min"
          THEN Overall = [minimum_amount |-> want.value]
          ELSE Overall = [maximum_amount |-> want.value]

\* amounts 100, 200 and 300 summed: 600 over 3 bills
C17_Witness ==
    /\ Aggregated
    /\ equery.aggregation_type = "sum"
    /\ {Fetched[i].total_amount : i \in 1..Len(Fetched)} = {10000, 20000, 30000}
    /\ Len(Fetched) = 3
    /\ Overall = [total_amount |-> 60000, bill_count |-> 3]

\* amounts 100 and 300 averaged: 200
C17_WitnessAverage ==
    /\ Aggregated
    /\ equery.aggregation_type = "average"
    /\ Len(Fetched) = 2
    /\ {Fetched[i].total_amount : i \in 1..Len(Fetched)} = {10000, 30000}
    /\ Overall.average_amount.num = 20000 * Overall.average_amount.den

\* the group key the query's group_by gives a record
KeyOf(bill) ==
    IF equery.group_by = "category" THEN Text(bill.category)
    ELSE IF equery.group_by = "vendor" THEN bill.vendor_name
    ELSE IF equery.group_by = "month" THEN SubSeq(IsoFormat(bill.bill_date), 1, 7)
    ELSE SubSeq(IsoFormat(bill.bill_date), 1, 4)

\* the values of a breakdown of plain numbers over the keys in K, added up
RECURSIVE BreakdownTotal(_, _)
BreakdownTotal(breakdown, K) ==
    IF K = {} THEN 0
    ELSE LET k == CHOOSE j \in K : TRUE
         IN  breakdown[k] + BreakdownTotal(breakdown, K \ {k})

(* C18: with group_by set, the breakdown partitions the fetched records by
   their key (category value, vendor name, "YYYY-MM", four-digit year): its
   keys are exactly the keys of the fetched records, each group's value is the
   query's own aggregation (sum when unset) of the amounts of the records with
   that key, and for sum the group values add up to the overall total. *)
C18_BreakdownPartitions ==
    (Aggregated /\ equery.group_by # "None") =>
      LET agg       == equery.aggregation_type
          breakdown == eout.result.aggregation_result.breakdown
          n         == Len(Fetched)
          Group(k)  == {i \in 1..n : KeyOf(Fetched[i]) = k}
      IN  /\ DOMAIN breakdown = {KeyOf(Fetched[i]) : i \in 1..n}
          /\ \A k \in DOMAIN breakdown :
               LET want == Requested(agg, Fetched, Group(k))
               IN  IF agg = "average"
                   THEN breakdown[k].num * want.count = want.value * breakdown[k].den
                   ELSE breakdown[k] = want.value
          /\ agg \in {"sum", "None"} =>
               BreakdownTotal(breakdown, DOMAIN breakdown)
                 = eout.result.aggregation_result.total_amount
          /\ agg = "count" => BreakdownTotal(breakdown, DOMAIN breakdown) = n

\* two bills of January 2024 and one of December 2023 grouped by month
C18_Witness ==
    /\ Aggregated
    /\ equery.group_by = "month"
    /\ equery.aggregation_type = "None"
    /\ Len(Fetched) = 3
    /\ eout.result.aggregation_result.breakdown
         = (<<"2","0","2","4","-","0","1">> :> 40000) @@ (<<"2","0","2","3","-","1","2">> :> 20000)
    /\ eout.result.aggregation_result.total_amount = 60000

(* C19: an exists query asks the record source for at most one record with
   the same filters a list query passes; with no match it returns data_found
   false, result_count 0 and results = [{"exists": false, "answer": "no"}];
   with a match it returns data_found true and results = the yes-answer entry
   followed by the data of that record. *)
C19_ExistsAnswers ==
    (equery.query_type = "exists" /\ epc # "ready") =>
      /\ ecall = [ category       |-> equery.category_filter,
                   vendor         |-> equery.vendor_filter,
                   date_from      |-> equery.date_from,
                   date_to        |-> equery.date_to,
                   payment_status |-> equery.payment_status_filter,
                   limit          |-> 1,
                   offset         |-> 0 ]
      /\ Executed =>
           /\ Len(Fetched) <= 1
           /\ eout.result.success
           /\ IF Matching = {}
              THEN /\ ~eout.result.data_found
                   /\ eout.result.result_count = 0
                   /\ eout.result.results = << [exists |-> FALSE, answer |-> <<"n","o">>] >>
              ELSE /\ eout.result.data_found
                   /\ Len(eout.result.results) = 2
                   /\ eout.result.results[1] = [exists |-> TRUE, answer |-> <<"y","e","s">>]
                   /\ eout.result.results[2] = BillToDict(Fetched[1])
                   /\ \E i \in Matching : eout.result.results[2].id = sheet[i].id

\* an exists query over a worksheet with two matching bills
C19_Witness ==
    /\ Executed
    /\ equery.query_type = "exists"
    /\ Cardinality(Matching) >= 2
    /\ eout.result.data_found
    /\ Len(eout.result.results) = 2

\* an exists query over a non-empty worksheet with no matching bill
C19_WitnessNo ==
    /\ Executed
    /\ equery.query_type = "exists"
    /\ Len(sheet) > 0
    /\ Matching = {}
    /\ eout.result.results = << [exists |-> FALSE, answer |-> <<"n","o">>] >>

(* C20: every QueryResult execute returns, for all five query types and on
   the failure path, has data_found = (result_count > 0); for lookup and list
   result_count is the number of entries in results. *)
C20_DataFoundIffCounted ==
    epc = "done" =>
      /\ eout.result.data_found = (eout.result.result_count > 0)
      /\ equery.query_type \in {"lookup", "list"} =>
           eout.result.result_count = Len(eout.result.results)

\* a lookup that found two records
C20_Witness ==
    /\ Executed
    /\ equery.query_type = "lookup"
    /\ eout.result.data_found
    /\ eout.result.result_count = 2
    /\ Len(eout.result.results) = 2

\* the failure path of an exists query
C20_WitnessFailed ==
    /\ epc = "done"
    /\ eresponse.raised
    /\ equery.query_type = "exists"
    /\ ~eout.result.data_found
    /\ eout.result.result_count = 0

\* what execute returns for `query` when run on its own against the worksheet,
\* the record source ending its call the way it ended the one observed
Alone(query) ==
    LET call == ListCall(query)
        response ==
            IF eresponse.raised THEN eresponse
            ELSE [ raised |-> FALSE,
                   bills  |-> ListBills(sheet, call.category, call.vendor, call.date_from,
                                        call.date_to, call.payment_status, call.limit,
                                        call.offset) ]
    IN  ExecuteOutcome(query, response).result

(* C21: for every query and every worksheet, execute with query_type compare
   returns the same success, data_found, result_count, aggregation_result and
   query_description as execute with query_type aggregate and otherwise
   identical fields. *)
C21_CompareIsAggregate ==
    (epc = "done" /\ equery.query_type = "compare") =>
      LET twin == Alone([equery EXCEPT !.query_type = "aggregate"])
      IN  /\ eout.result.success = twin.success
          /\ eout.result.data_found = twin.data_found
          /\ eout.result.result_count = twin.result_count
          /\ eout.result.aggregation_result = twin.aggregation_result
          /\ eout.result.query_description = twin.query_description

\* a compare query averaging three fetched bills per category
C21_Witness ==
    /\ Executed
    /\ equery.query_type = "compare"
    /\ equery.aggregation_type = "average"
    /\ equery.group_by = "category"
    /\ Len(Fetched) = 3
    /\ eout.result.data_found

(* C25: the results of a lookup or list query are ordered by bill date, most
   recent first, and are cut to limit after that ordering: they are the limit
   most recent of the bills matching the filters, whatever the order of the
   worksheet rows. *)
C25_MostRecentFirst ==
    (Executed /\ equery.query_type \in {"lookup", "list"}) =>
      LET results == eout.result.results
          n       == Len(results)
      IN  /\ n = (IF Cardinality(Matching) < equery.limit
                  THEN Cardinality(Matching) ELSE equery.limit)
          /\ n = Len(Fetched)
          /\ \A i \in 1..n : results[i] = BillToDict(Fetched[i])
          /\ \A i \in 1..n : \E j \in Matching : sheet[j] = Fetched[i]
          /\ \A i \in 1..(n - 1) : DateLE(Fetched[i + 1].bill_date, Fetched[i].bill_date)
          /\ \A j \in Matching :
               \/ \E i \in 1..n : Fetched[i] = sheet[j]
               \/ \A i \in 1..n : DateLE(sheet[j].bill_date, Fetched[i].bill_date)

\* limit 1 over a worksheet whose oldest matching bill comes first
C25_Witness ==
    /\ Executed
    /\ equery.query_type = "list"
    /\ equery.limit = 1
    /\ Cardinality(Matching) = 3
    /\ \A j \in 2..3 : DateLT(sheet[1].bill_date, sheet[j].bill_date)
    /\ Len(eout.result.results) = 1
    /\ \A j \in 1..3 : DateLE(sheet[j].bill_date, Fetched[1].bill_date)

\* one more candidate than the aggregation cap
Overfull == [i \in 1..(AggregateFetchLimit + 1) |-> i]

(* C26: an aggregate or compare query always asks the record source for up to
   1000 matching records, whatever query.limit is: queries differing only in
   limit get the same aggregation_result and result_count, and no more than
   1000 records contribute to an aggregation. *)
C26_AggregateIgnoresLimit ==
    (equery.query_type \in {"aggregate", "compare"} /\ epc # "ready") =>
      /\ ecall.limit = 1000
      /\ Len(Slice(Overfull, ecall.offset, ecall.limit)) = 1000
      /\ Executed =>
           /\ eout.result.result_count = Cardinality(Matching)
           /\ eout.result.result_count <= 1000
           /\ \A l \in QueryLimits :
                LET twin == Alone([equery EXCEPT !.limit = l])
                IN  /\ twin.aggregation_result = eout.result.aggregation_result
                    /\ twin.result_count = eout.result.result_count

\* an aggregate query with limit 1 summing three bills
C26_Witness ==
    /\ Executed
    /\ equery.query_type = "aggregate"
    /\ equery.limit = 1
    /\ Len(Fetched) = 3
    /\ eout.result.result_count = 3

\* one more part of a description: " | " and the text when the filter is set
DescPart(set, text) == IF set THEN <<" ","|"," ">> \o text ELSE <<>>

CategoryPart ==
    DescPart(equery.category_filter # "None",
             <<"c","a","t","e","g","o","r","y",":"," ">> \o (IF equery.category_filter # "None"
                              THEN Text(equery.category_filter) ELSE <<>>))

VendorPart == DescPart(Truthy(equery.vendor_filter), <<"v","e","n","d","o","r",":"," ">> \o equery.vendor_filter)

StatusPart ==
    DescPart(equery.payment_status_filter # "None",
             <<"s","t","a","t","u","s",":"," ">> \o (IF equery.payment_status_filter # "None"
                            THEN Text(equery.payment_status_filter) ELSE <<>>))

DatePart ==
    DescPart(equery.date_from # NoDate \/ equery.date_to # NoDate,
             DateRangeStr(equery.date_from, equery.date_to))

Opening == IF equery.query_type = "lookup" THEN <<"L","o","o","k","i","n","g"," ","f","o","r"," ","b","i","l","l","s">> ELSE <<"L","i","s","t","i","n","g"," ","b","i","l","l","s">>

(* C27: the query_description of a lookup or list query is the opening phrase
   followed by exactly the filters that are set, in the order category,
   vendor, date-range phrase: an unset filter contributes nothing and no other
   part appears between or after them. *)
C27_DescriptionOfThreeFilters ==
    (Executed /\ equery.query_type \in {"lookup", "list"}) =>
      eout.result.query_description = Opening \o CategoryPart \o VendorPart \o DatePart

(* C27, amended: a lookup describes category, vendor and date range; a list
   query also describes its payment-status filter, between the vendor and the
   date range. An unset filter contributes nothing. *)
C27_DescriptionOfSetFilters ==
    (Executed /\ equery.query_type \in {"lookup", "list"}) =>
      eout.result.query_description =
        Opening \o CategoryPart \o VendorPart
                \o (IF equery.query_type = "list" THEN StatusPart ELSE <<>>)
                \o DatePart

\* a list query filtered by vendor, payment status and dates, not by category
C27_Witness ==
    /\ Executed
    /\ equery.query_type = "list"
    /\ equery.category_filter = "None"
    /\ Truthy(equery.vendor_filter)
    /\ equery.payment_status_filter = "unpaid"
    /\ equery.date_from # NoDate
    /\ eout.result.query_description
         = <<"L","i","s","t","i","n","g"," ","b","i","l","l","s"," ","|"," ","v","e","n","d","o","r",":"," ","A","C","M","E"," ","|"," ","s","t","a","t","u","s",":"," ","u","n","p","a","i","d"," ","|"," ","i","n"," ","J","a","n","u","a","r","y"," ","2","0","2","4">>

\* a lookup filtered by payment status, which its description leaves out
C27_WitnessLookup ==
    /\ Executed
    /\ equery.query_type = "lookup"
    /\ equery.category_filter = "gas"
    /\ equery.payment_status_filter = "unpaid"
    /\ ~Truthy(equery.vendor_filter)
    /\ equery.date_from = NoDate
    /\ eout.result.query_description = <<"L","o","o","k","i","n","g"," ","f","o","r"," ","b","i","l","l","s"," ","|"," ","c","a","t","e","g","o","r","y",":"," ","g","a","s">>

\* the whole of year y
FullYear(y) == << <<y, 1, 1>>, <<y, 12, 31>> >>

\* the six rules in their order: <<the rule matches the phrase, its range>>
Rules ==
    LET months == {m \in 1..12 : Contains(Phrase, MonthNames[m])}
        month  == IF months = {} THEN 1
                  ELSE CHOOSE m \in months : \A k \in months : m <= k
        tokens == {i \in 1..(Len(Phrase) - 3) :
                     /\ Phrase[i] = "2" /\ Phrase[i + 1] = "0"
                     /\ IsDigit(Phrase[i + 2]) /\ IsDigit(Phrase[i + 3])}
        token  == IF tokens = {} THEN 1
                  ELSE CHOOSE i \in tokens : \A k \in tokens : i <= k
    IN  << <<Phrase \in ThisMonthPhrases, FullMonth(Year(today), Month(today))>>,
           <<Phrase \in LastMonthPhrases, FullMonth(PrecedingMonth[1], PrecedingMonth[2])>>,
           <<Phrase \in ThisYearPhrases, FullYear(Year(today))>>,
           <<Phrase \in LastYearPhrases, FullYear(Year(today) - 1)>>,
           <<months # {},
             FullMonth(IF month > Month(today) THEN Year(today) - 1 ELSE Year(today), month)>>,
           <<tokens # {},
             IF tokens = {} THEN <<NoDate, NoDate>>
             ELSE FullYear(2000 + 10 * DigitVal(Phrase[token + 2])
                                + DigitVal(Phrase[token + 3]))>> >>

(* C24: the rules of the resolver are tried in the order this-month,
   last-month, this-year, last-year, month-name, four-digit-year, and the
   first rule that matches alone gives the range: a phrase holding both a
   month name and a 20dd year token is resolved by the month-name rule, with
   the year chosen relative to today and the token not consulted. *)
C24_FirstMatchingRuleWins ==
    (npc = "returned" /\ ~PhraseAbsent) =>
      LET matching == {r \in 1..6 : Rules[r][1]}
      IN  IF matching = {} THEN Resolved = <<NoDate, NoDate>>
          ELSE Resolved = Rules[CHOOSE r \in matching : \A k \in matching : r <= k][2]

\* "June 2023" asked in the second half of 2024: June 2024
C24_Witness ==
    /\ npc = "returned"
    /\ intent.time_reference = <<"J","u","n","e"," ","2","0","2","3">>
    /\ Year(today) = 2024
    /\ Month(today) >= 6
    /\ Rules[5][1] /\ Rules[6][1]
    /\ Resolved = FullMonth(2024, 6)

-----------------------------------------------------------------------------
(* BillUploadFlow and the upload page *)

MaxUploads == 2

MaxConfirms == 2

\* an AuditEvent: its type and the entity it is about
AuditEvent(event_type, entity_id) == [event_type |-> event_type, entity_id |-> entity_id]

\* a logger that drops every event
LoggedNothing(events) == audit_log

\* AuditLogger.log through an optional logger: events are logged when one was given
Logged(events) == IF uaudit THEN audit_log \o events ELSE audit_log

\* should_proceed_with_extraction, the document type being known
ShouldProceedWithExtraction(e) ==
    /\ e.confidence_score >= 30
    /\ e.total_amount # NoAmount

\* validate run to its end: `exists_raises` is how an awaited bill_exists ends
Validate(e, storage, rows, now, exists_raises) ==
    LET schema == ValidateSchema(e)
        semantic == ValidateSemantic(e, now)
        stage2 == Stage2Runs(schema.valid)
        asks == stage2 /\ ChecksDuplicates(storage, e)
        issues == IF stage2 THEN schema.issues \o semantic.issues ELSE schema.issues
        duplicates ==
            IF asks
            THEN CheckDuplicatesOutcome(
                     [ raised       |-> exists_raises,
                       is_duplicate |-> ~exists_raises
                                        /\ BillExists(rows, e.vendor, e.bill_number,
                                                      e.bill_date) ])
            ELSE NoDuplicates
    IN  IF duplicates.raised
        THEN [raised |-> TRUE, result |-> NoResult]
        ELSE [raised |-> FALSE,
              result |-> ValidationResult(e, schema.valid,
                                          IF stage2 THEN semantic.valid ELSE FALSE,
                                          issues \o duplicates.issues)]

\* the ValidationError ConfirmedBill(...) raises: field constraints and validate_dates
ConfirmedBillRaises(e, vendor_name, total_amount, bill_date, due_date) ==
    \/ Len(Strip(vendor_name)) < 1
    \/ total_amount < 0
    \/ due_date # NoDate /\ DateLT(due_date, bill_date)
    \/ /\ e.billing_period_start # NoDate
       /\ e.billing_period_end # NoDate
       /\ DateLT(e.billing_period_end, e.billing_period_start)

\* the ConfirmedBill confirm_and_save builds
ConfirmedBill(id, e, category, vendor_name, total_amount, bill_date, due_date) ==
    [ id                   |-> id,
      vendor_name          |-> Strip(vendor_name),
      category             |-> category,
      total_amount         |-> total_amount,
      bill_date            |-> bill_date,
      bill_number          |-> e.bill_number,
      due_date             |-> due_date,
      billing_period_start |-> e.billing_period_start,
      billing_period_end   |-> e.billing_period_end,
      subtotal             |-> e.subtotal,
      tax_amount           |-> e.tax_amount,
      line_items           |-> e.line_items,
      status               |-> "confirmed",
      payment_status       |-> "unpaid" ]

\* _bill_to_row, as list_bills reads the row back
BillToRow(bill) ==
    Bill(bill.id, bill.vendor_name, bill.category, bill.total_amount, bill.bill_date,
         bill.due_date, bill.payment_status, bill.bill_number)

\* _bill_to_row raises: json.dumps of a line item's model_dump(), whose amount
\* is a Decimal
BillToRowRaises(bill) == Len(bill.line_items) > 0

\* the line items of an extraction: the amount of each
LineItemLists == { <<>>, <<4500>> }

UploadExtractions ==
    { ExtractedBillData(a, <<"A","c","m","e">>, <<"B","1">>, MkDate(2024, 1, 10), r, 90)
        @@ [line_items |-> li] :
        a \in {NoAmount, 0, 10000}, r \in RestOfExtraction, li \in LineItemLists }

\* how the image and OCR services end for one upload
ServiceOutcomes ==
    {"enhance_raised", "poor_quality", "not_a_bill", "ocr_raised", "unknown_document",
     "extracted"}

\* what the user may leave in the form when clicking Confirm
FormVendors == { <<>>, <<" ">>, <<"A","c","m","e">> }
FormAmounts == {0, 10000}
FormDueDates == {NoDate, MkDate(2024, 1, 5), MkDate(2024, 2, 1)}

UpInit ==
    /\ today = MkDate(2024, 1, 15)
    /\ sheet = <<>>
    /\ audit_log = <<>>
    /\ ustorage \in BOOLEAN
    /\ uaudit \in BOOLEAN
    /\ upload_state = "idle"
    /\ extracted_data = NoExtraction
    /\ validation = NoValidation
    /\ saved_bill = NoBill
    /\ upc = "ui"
    /\ ubill = NoBill
    /\ attempt = NoAttempt
    /\ uploads = 0
    /\ built = 0
    /\ NormIdle /\ ExecIdle /\ FlowIdle /\ ValIdle /\ SecondIdle

\* "Process Bill" with a file chosen
ProcessBillClick ==
    /\ upload_state = "idle"
    /\ uploads < MaxUploads
    /\ upload_state' = "processing"
    /\ uploads' = uploads + 1
    /\ UNCHANGED <<extracted_data, validation, saved_bill, ustorage, uaudit, upc, ubill,
                   attempt, built, envVars, normVars, execVars, flowVars, valVars,
                   secondVars>>

\* the processing step: process_image, extract_bill_data, validate_extraction
ProcessBill ==
    /\ upload_state = "processing"
    /\ \E service \in ServiceOutcomes, e \in UploadExtractions, exists_raises \in BOOLEAN :
         LET uploaded == AuditEvent("image_uploaded", uploads)
             enhanced == AuditEvent("image_enhancement_completed", uploads)
             ocr == AuditEvent("ocr_completed", uploads)
             outcome == Validate(e, ustorage, sheet, today, exists_raises)
             back(events) ==
                 /\ audit_log' = Logged(events)
                 /\ upload_state' = "idle"
                 /\ UNCHANGED <<extracted_data, validation>>
         IN  IF service = "enhance_raised"
             THEN back(<<uploaded, AuditEvent("external_service_error", uploads)>>)
             ELSE IF service = "poor_quality"
             THEN back(<<uploaded, AuditEvent("image_quality_check_failed", uploads)>>)
             ELSE IF service = "not_a_bill"
             THEN back(<<uploaded, enhanced, AuditEvent("document_type_rejected", uploads)>>)
             ELSE IF service = "ocr_raised"
             THEN back(<<uploaded, enhanced, AuditEvent("external_service_error", uploads)>>)
             ELSE IF service = "unknown_document" \/ ~ShouldProceedWithExtraction(e)
             THEN back(<<uploaded, enhanced, ocr>>)
             ELSE IF outcome.raised
             THEN back(<<uploaded, enhanced, ocr>>)
             ELSE /\ audit_log' =
                       Logged(<<uploaded, enhanced, ocr>> \o
                              (IF outcome.result.is_valid THEN <<>>
                               ELSE IF ~outcome.result.schema_valid
                               THEN <<AuditEvent("schema_validation_failed", uploads)>>
                               ELSE <<AuditEvent("semantic_validation_failed", uploads)>>))
                  /\ extracted_data' = e
                  /\ validation' = outcome.result
                  /\ upload_state' = "reviewing"
    /\ UNCHANGED <<today, sheet, saved_bill, ustorage, uaudit, upc, ubill, attempt, uploads,
                   built, normVars, execVars, flowVars, valVars, secondVars>>

\* the page's checks with the amount left unchecked
FormErrorVendorOnly(vendor_name, total_amount) ==
    IF Len(vendor_name) = 0 THEN "no_vendor" ELSE "none"

\* the checks of the page before it calls confirm_and_save
FormError(vendor_name, total_amount) ==
    IF Len(vendor_name) = 0 THEN "no_vendor"
    ELSE IF total_amount <= 0 THEN "bad_amount"
    ELSE "none"

\* "Confirm and Save": the checks of the page, then confirm_and_save up to its
\* awaited save_bill, or to its return when no record source was given
ConfirmClick ==
    /\ upload_state = "reviewing"
    /\ upc = "ui"
    /\ built < MaxConfirms
    /\ \E vendor_name \in FormVendors, total_amount \in FormAmounts, due_date \in FormDueDates :
         LET bill_date == IF extracted_data.bill_date # NoDate
                          THEN extracted_data.bill_date ELSE today
             form == [ vendor_name |-> vendor_name, total_amount |-> total_amount,
                       bill_date |-> bill_date, due_date |-> due_date ]
             bill == ConfirmedBill(built + 1, extracted_data, "gas", vendor_name,
                                   total_amount, bill_date, due_date)
             refused(outcome) ==
                 /\ attempt' = form @@ [outcome |-> outcome]
                 /\ UNCHANGED <<audit_log, upload_state, saved_bill, upc, ubill, built>>
         IN  IF FormError(vendor_name, total_amount) # "none"
             THEN refused(FormError(vendor_name, total_amount))
             ELSE IF ConfirmedBillRaises(extracted_data, vendor_name, total_amount,
                                         bill_date, due_date)
             THEN refused("invalid_bill")
             ELSE /\ built' = built + 1
                  /\ ubill' = bill
                  /\ audit_log' = Logged(<<AuditEvent("user_confirmed", bill.id)>>)
                  /\ IF ustorage
                     THEN /\ upc' = "saving"
                          /\ attempt' = form @@ [outcome |-> "saving"]
                          /\ UNCHANGED <<upload_state, saved_bill>>
                     ELSE /\ upload_state' = "saved"
                          /\ saved_bill' = bill
                          /\ attempt' = form @@ [outcome |-> "returned"]
                          /\ UNCHANGED upc
    /\ UNCHANGED <<today, sheet, extracted_data, validation, ustorage, uaudit, uploads,
                   normVars, execVars, flowVars, valVars, secondVars>>

\* save_bill appends the row and returns; confirm_and_save logs and returns the
\* bill; the page shows it as saved
SaveBillReturn ==
    /\ upc = "saving"
    /\ ~BillToRowRaises(ubill)
    /\ sheet' = Append(sheet, BillToRow(ubill))
    /\ audit_log' = Logged(<<AuditEvent("bill_saved", ubill.id)>>)
    /\ upload_state' = "saved"
    /\ saved_bill' = ubill
    /\ attempt' = [attempt EXCEPT !.outcome = "saved"]
    /\ upc' = "ui"
    /\ UNCHANGED <<today, extracted_data, validation, ustorage, uaudit, ubill, uploads,
                   built, normVars, execVars, flowVars, valVars, secondVars>>

\* save_bill raises a StorageError (the worksheet is unreachable, or the row
\* cannot be built); the page reports "Failed to save"
SaveBillRaise ==
    /\ upc = "saving"
    /\ attempt' = [attempt EXCEPT !.outcome = IF BillToRowRaises(ubill)
                                              THEN "row_failed" ELSE "storage_failed"]
    /\ upc' = "ui"
    /\ UNCHANGED <<envVars, sessionVars, ustorage, uaudit, ubill, uploads, built,
                   normVars, execVars, flowVars, valVars, secondVars>>

\* "Reject / Start Over": reject_extraction, then back to idle
RejectClick ==
    /\ upload_state = "reviewing"
    /\ upc = "ui"
    /\ audit_log' = Logged(<<AuditEvent("user_rejected", uploads)>>)
    /\ upload_state' = "idle"
    /\ extracted_data' = NoExtraction
    /\ attempt' = NoAttempt
    /\ UNCHANGED <<today, sheet, validation, saved_bill, ustorage, uaudit, upc, ubill,
                   uploads, built, normVars, execVars, flowVars, valVars, secondVars>>

\* "Upload Another Bill"
UploadAnotherClick ==
    /\ upload_state = "saved"
    /\ upload_state' = "idle"
    /\ extracted_data' = NoExtraction
    /\ saved_bill' = NoBill
    /\ attempt' = NoAttempt
    /\ UNCHANGED <<envVars, validation, ustorage, uaudit, upc, ubill, uploads, built,
                   normVars, execVars, flowVars, valVars, secondVars>>

UpNext ==
    \/ ProcessBillClick
    \/ ProcessBill
    \/ ConfirmClick
    \/ SaveBillReturn
    \/ SaveBillRaise
    \/ RejectClick
    \/ UploadAnotherClick

SpecUpload == UpInit /\ [][UpNext]_vars

\* a save_bill call begins in this step
SaveBillCalled == upc = "ui" /\ upc' = "saving"

(* C22: no bill is persisted without the user's confirmation: save_bill is
   called only by confirm_and_save, which the page calls only in state
   reviewing on a Confirm click with a non-empty vendor name and an amount
   above 0; a row is written only by that save_bill and is the confirmed bill;
   processing a bill writes nothing, and Reject returns to idle with nothing
   saved. *)
C22_SavedOnlyOnConfirm ==
    [][ /\ SaveBillCalled =>
             /\ upload_state = "reviewing"
             /\ upload_state' = "reviewing"
             /\ Len(attempt'.vendor_name) > 0
             /\ attempt'.total_amount > 0
             /\ ubill'.vendor_name = Strip(attempt'.vendor_name)
             /\ ubill'.total_amount = attempt'.total_amount
        /\ sheet' # sheet =>
             /\ upc = "saving"
             /\ upload_state = "reviewing"
             /\ sheet' = Append(sheet, BillToRow(ubill))
        /\ upload_state = "processing" => sheet' = sheet /\ upc' = "ui"
        /\ (upload_state = "reviewing" /\ upload_state' = "idle") =>
             sheet' = sheet /\ upc' = "ui"
      ]_vars

\* a bill saved after Confirm
C22_Witness ==
    /\ upload_state = "saved"
    /\ attempt.outcome = "saved"
    /\ Len(sheet) = 1
    /\ sheet[1].id = saved_bill.id
    /\ sheet[1].vendor_name = <<"A","c","m","e">>

\* a reviewed extraction rejected: back to idle, nothing saved
C22_WitnessRejected ==
    /\ upload_state = "idle"
    /\ uploads = 1
    /\ uaudit
    /\ Len(audit_log) > 0
    /\ audit_log[Len(audit_log)].event_type = "user_rejected"
    /\ sheet = <<>>

\* the last Confirm click carried values confirm_and_save is asked to accept
ValidConfirm ==
    /\ attempt.outcome \notin {"none", "saving"}
    /\ Len(Strip(attempt.vendor_name)) > 0
    /\ attempt.total_amount > 0
    /\ attempt.due_date = NoDate \/ DateLE(attempt.bill_date, attempt.due_date)

(* C28: semantic warnings never keep the user from a saved bill: for every
   extraction that passed schema validation, whatever warnings validate
   raised, confirm_and_save called with a non-empty vendor name, an amount
   above 0, a bill date and a due date not before it builds the ConfirmedBill
   from the user's values and the fields copied from the extraction and saves
   it without raising (the record source being reachable). *)
C28_WarningsNeverBlockSaving ==
    (ustorage /\ upload_state \in {"reviewing", "saved"} /\ validation.schema_valid
       /\ ValidConfirm /\ attempt.outcome # "storage_failed") =>
      /\ attempt.outcome = "saved"
      /\ upload_state = "saved"
      /\ saved_bill.vendor_name = Strip(attempt.vendor_name)
      /\ saved_bill.total_amount = attempt.total_amount
      /\ saved_bill.bill_date = attempt.bill_date
      /\ saved_bill.due_date = attempt.due_date
      /\ saved_bill.bill_number = extracted_data.bill_number
      /\ saved_bill.billing_period_start = extracted_data.billing_period_start
      /\ saved_bill.billing_period_end = extracted_data.billing_period_end
      /\ saved_bill.subtotal = extracted_data.subtotal
      /\ saved_bill.tax_amount = extracted_data.tax_amount
      /\ saved_bill.line_items = extracted_data.line_items
      /\ \E i \in 1..Len(sheet) : sheet[i] = BillToRow(saved_bill)

(* C29: the page is in state saved only after save_bill completed for that
   bill: the bill shown as saved is a row of the worksheet; when save_bill
   raises, or nothing was written, the state is still reviewing. *)
C29_SavedMeansStored ==
    /\ upload_state = "saved" =>
         \E i \in 1..Len(sheet) : sheet[i] = BillToRow(saved_bill)
    /\ attempt.outcome \in {"storage_failed", "row_failed"} => upload_state = "reviewing"

\* the audit events of a type about a bill: their positions in the log
EventsOf(event_type, id) ==
    { i \in 1..Len(audit_log) :
        audit_log[i].event_type = event_type /\ audit_log[i].entity_id = id }

(* C30: with an audit logger, confirm_and_save logs USER_CONFIRMED before it
   calls save_bill and BILL_SAVED only after save_bill returned: every
   BILL_SAVED event of a bill comes after a USER_CONFIRMED event of that bill
   and the bill is stored; when save_bill raises or no record source was given,
   no BILL_SAVED event is logged. *)
C30_ConfirmedBeforeSaved ==
    uaudit =>
      /\ upc = "saving" =>
           /\ EventsOf("user_confirmed", ubill.id) # {}
           /\ EventsOf("bill_saved", ubill.id) = {}
      /\ \A j \in 1..Len(audit_log) :
           audit_log[j].event_type = "bill_saved" =>
             /\ \E i \in EventsOf("user_confirmed", audit_log[j].entity_id) : i < j
             /\ \E k \in 1..Len(sheet) : sheet[k].id = audit_log[j].entity_id
      /\ attempt.outcome \in {"storage_failed", "row_failed"} =>
           /\ EventsOf("user_confirmed", ubill.id) # {}
           /\ EventsOf("bill_saved", ubill.id) = {}
      /\ ~ustorage => \A j \in 1..Len(audit_log) : audit_log[j].event_type # "bill_saved"
      /\ \A k \in 1..Len(sheet) : EventsOf("bill_saved", sheet[k].id) # {}

\* a saved bill with both events in the log, in order
C30_Witness ==
    /\ uaudit
    /\ upload_state = "saved"
    /\ attempt.outcome = "saved"
    /\ \E i \in EventsOf("user_confirmed", saved_bill.id) :
         \E j \in EventsOf("bill_saved", saved_bill.id) : i < j

\* save_bill raised after the confirmation was logged
C30_WitnessRaised ==
    /\ uaudit
    /\ attempt.outcome = "storage_failed"
    /\ EventsOf("user_confirmed", ubill.id) # {}
    /\ EventsOf("bill_saved", ubill.id) = {}
-----------------------------------------------------------------------------
(* Two calls in flight on one QueryExecutor or one BillValidator *)

\* queries of every type whose filters, aggregation and limit differ
ConcQueries ==
    { StructuredQuery("lookup", "gas", NoneStr, <<NoDate, NoDate>>, "None", "None", "None", 1),
      StructuredQuery("list", "None", <<"A","C","M","E">>, <<MkDate(2024, 1, 1), MkDate(2024, 1, 31)>>,
                      "unpaid", "None", "None", DefaultLimit),
      StructuredQuery("exists", "None", NoneStr, <<NoDate, NoDate>>, "unpaid", "None", "None",
                      DefaultLimit),
      StructuredQuery("aggregate", "None", NoneStr, <<NoDate, NoDate>>, "None", "sum",
                      "category", 1),
      StructuredQuery("compare", "gas", NoneStr, <<NoDate, NoDate>>, "None", "max", "None",
                      DefaultLimit) }

\* extractions that ask the record source for a duplicate, with different
\* arguments, and some that end at the schema stage or do not ask
ConcExtractions ==
    { ExtractedBillData(a, v, n, d, r, 90) :
        a \in {NoAmount, 10000},
        v \in {NoneStr, <<"A","c","m","e">>, <<"Z","e","d">>},
        n \in {<<"B","1">>},
        d \in {MkDate(2024, 1, 10), MkDate(2023, 12, 5)},
        r \in { [ subtotal |-> NoAmount, tax_amount |-> NoAmount, due_date |-> NoDate,
                  billing_period_start |-> NoDate, billing_period_end |-> NoDate ] } }

ConcExecInit ==
    /\ today = MkDate(2024, 1, 15)
    /\ sheet \in Sheets
    /\ audit_log = <<>>
    /\ equery \in ConcQueries
    /\ epc = "ready"
    /\ ecall = NoCall
    /\ eresponse = NoResponse
    /\ eout = NoOutcome
    /\ sinput \in ConcQueries
    /\ spc = "ready"
    /\ scall = NoCall
    /\ sresponse = NoResponse
    /\ sstage = NoStage
    /\ sout = NoOutcome
    /\ NormIdle /\ FlowIdle /\ ValIdle /\ UpIdle

ConcValInit ==
    /\ today = MkDate(2024, 1, 15)
    /\ vstorage \in BOOLEAN
    /\ sheet \in (IF vstorage THEN Sheets ELSE {<<>>})
    /\ audit_log = <<>>
    /\ extracted \in ConcExtractions
    /\ vpc = "ready"
    /\ vcall = NoCall
    /\ vresponse = NoResponse
    /\ vstage = NoStage
    /\ vout = NoOutcome
    /\ sinput \in ConcExtractions
    /\ spc = "ready"
    /\ scall = NoCall
    /\ sresponse = NoResponse
    /\ sstage = NoStage
    /\ sout = NoOutcome
    /\ NormIdle /\ ExecIdle /\ FlowIdle /\ UpIdle

ConcInit == ConcExecInit \/ ConcValInit

\* the second execute enters its handler, which awaits list_bills
SecondExecuteCall ==
    /\ spc = "ready"
    /\ epc # "idle"
    /\ scall' = ListCall(sinput)
    /\ spc' = "awaiting"
    /\ UNCHANGED <<sinput, sresponse, sstage, sout, upVars, envVars, normVars, execVars, flowVars, valVars>>

\* list_bills answering from the arguments of whichever call wrote them last
SecondListBillsReturnShared ==
    /\ spc = "awaiting"
    /\ epc # "idle"
    /\ LET call == IF ecall = NoCall THEN scall ELSE ecall
           bills == ListBills(sheet, call.category, call.vendor, call.date_from,
                              call.date_to, call.payment_status, call.limit, call.offset)
       IN  sresponse' = [raised |-> FALSE, bills |-> bills]
    /\ sout' = ExecuteOutcome(sinput, sresponse')
    /\ spc' = "done"
    /\ UNCHANGED <<sinput, scall, sstage, upVars, envVars, normVars, execVars, flowVars, valVars>>

\* the record source answers the second call; its handler builds the QueryResult
SecondListBillsReturn ==
    /\ spc = "awaiting"
    /\ epc # "idle"
    /\ LET bills == ListBills(sheet, scall.category, scall.vendor, scall.date_from,
                              scall.date_to, scall.payment_status, scall.limit,
                              scall.offset)
       IN  sresponse' = [raised |-> FALSE, bills |-> bills]
    /\ sout' = ExecuteOutcome(sinput, sresponse')
    /\ spc' = "done"
    /\ UNCHANGED <<sinput, scall, sstage, upVars, envVars, normVars, execVars, flowVars, valVars>>

\* the record source raises in the second call
SecondListBillsRaise ==
    /\ spc = "awaiting"
    /\ epc # "idle"
    /\ \E e \in StorageErrors : sresponse' = [raised |-> TRUE, error |-> e]
    /\ sout' = ExecuteOutcome(sinput, sresponse')
    /\ spc' = "done"
    /\ UNCHANGED <<sinput, scall, sstage, upVars, envVars, normVars, execVars, flowVars, valVars>>

\* the tail of the second validate
SecondValidateReturn(stage, duplicates) ==
    IF duplicates.raised
    THEN [raised |-> TRUE, result |-> NoResult]
    ELSE [raised |-> FALSE,
          result |-> ValidationResult(sinput, stage.schema_valid, stage.semantic_valid,
                                      stage.issues \o duplicates.issues)]

\* the second validate up to its awaited bill_exists
SecondValidateStart ==
    /\ spc = "ready"
    /\ vpc # "idle"
    /\ LET schema == ValidateSchema(sinput)
           semantic == ValidateSemantic(sinput, today)
           stage2 == Stage2Runs(schema.valid)
           asks == stage2 /\ ChecksDuplicates(vstorage, sinput)
           stage == [ schema_valid   |-> schema.valid,
                      semantic_valid |-> IF stage2 THEN semantic.valid ELSE FALSE,
                      issues         |-> IF stage2 THEN schema.issues \o semantic.issues
                                         ELSE schema.issues,
                      semantic_ran   |-> stage2,
                      exists_calls   |-> IF asks THEN 1 ELSE 0 ]
       IN  /\ sstage' = stage
           /\ IF asks
              THEN /\ scall' = [ vendor      |-> sinput.vendor,
                                 bill_number |-> sinput.bill_number,
                                 bill_date   |-> sinput.bill_date ]
                   /\ spc' = "awaiting"
                   /\ UNCHANGED sout
              ELSE /\ sout' = SecondValidateReturn(stage, NoDuplicates)
                   /\ spc' = "done"
                   /\ UNCHANGED scall
    /\ UNCHANGED <<sinput, sresponse, upVars, envVars, normVars, execVars, flowVars, valVars>>

\* bill_exists answers the second call
SecondBillExistsReturn ==
    /\ spc = "awaiting"
    /\ vpc # "idle"
    /\ sresponse' = [ raised       |-> FALSE,
                      is_duplicate |-> BillExists(sheet, scall.vendor, scall.bill_number,
                                                  scall.bill_date) ]
    /\ sout' = SecondValidateReturn(sstage, CheckDuplicatesOutcome(sresponse'))
    /\ spc' = "done"
    /\ UNCHANGED <<sinput, scall, sstage, upVars, envVars, normVars, execVars, flowVars, valVars>>

\* bill_exists raises in the second call
SecondBillExistsRaise ==
    /\ spc = "awaiting"
    /\ vpc # "idle"
    /\ sresponse' = [raised |-> TRUE, is_duplicate |-> FALSE]
    /\ sout' = SecondValidateReturn(sstage, CheckDuplicatesOutcome(sresponse'))
    /\ spc' = "done"
    /\ UNCHANGED <<sinput, scall, sstage, upVars, envVars, normVars, execVars, flowVars, valVars>>

ConcNext ==
    \/ ExecuteCall \/ ListBillsReturn \/ ListBillsRaise
    \/ SecondExecuteCall \/ SecondListBillsReturn \/ SecondListBillsRaise
    \/ ValidateStart \/ BillExistsReturn \/ BillExistsRaise
    \/ SecondValidateStart \/ SecondBillExistsReturn \/ SecondBillExistsRaise

SpecConc == ConcInit /\ [][ConcNext]_vars

\* execute(query) run on its own against the worksheet, its list_bills ending
\* the way `response` did
ExecuteAlone(query, response) ==
    LET call == ListCall(query)
        own == IF response.raised THEN response
               ELSE [ raised |-> FALSE,
                      bills  |-> ListBills(sheet, call.category, call.vendor,
                                           call.date_from, call.date_to,
                                           call.payment_status, call.limit, call.offset) ]
    IN  ExecuteOutcome(query, own)

(* C23: execute and validate keep no state between or during calls: however
   two calls on the same instance interleave at their record-source awaits,
   each returns what it would have returned running alone against the same
   worksheet, and no step of either writes to the worksheet. *)
C23_CallsDoNotInterfere ==
    /\ [](/\ epc = "done" => eout = ExecuteAlone(equery, eresponse)
          /\ (spc = "done" /\ epc # "idle") => sout = ExecuteAlone(sinput, sresponse)
          /\ vpc = "done" => vout = Validate(extracted, vstorage, sheet, today, vresponse.raised)
          /\ (spc = "done" /\ vpc # "idle")
                => sout = Validate(sinput, vstorage, sheet, today, sresponse.raised))
    /\ [][sheet' = sheet]_vars

\* the second execute was issued and answered while the first still awaits its
\* own list_bills, made with other arguments
C23_Witness ==
    /\ epc = "awaiting" /\ spc = "done"
    /\ ecall # scall
    /\ ~sout.raised /\ sout.result.success /\ sout.result.data_found

\* the second validate asked for a duplicate and got its answer while the first
\* still awaits its own bill_exists, made with other arguments
C23_WitnessValidate ==
    /\ vpc = "awaiting" /\ spc = "done"
    /\ vcall # scall
    /\ sstage.exists_calls = 1 /\ ~sresponse.raised /\ sresponse.is_duplicate

====
